---- MODULE Spec2Model ----
(***************************************************************************)
(* Model of the jCodecs WebAssembly bridge: the AVIF and JPEG-XL decode,   *)
(* getImageInfo and encode entry points                                    *)
(*   packages/avif/src/wasm/avif_dec.cpp, avif_enc.cpp                     *)
(*   packages/jxl/src/wasm/jxl_dec.cpp,  jxl_enc.cpp                       *)
(*                                                                         *)
(* One call runs at a time.  `file` is the content of the caller's input   *)
(* buffer and stays the same over a behaviour, so that two calls on the    *)
(* same bytes can be compared.  A call is a sequence of stage actions; the *)
(* backend codecs (libavif, libjxl) and malloc are external and answer     *)
(* each stage nondeterministically (success or failure).                   *)
(*                                                                         *)
(* Conventions                                                             *)
(*   - a C++ string is a sequence of string pieces; <<>> is the empty      *)
(*     string, <<"IO error: ", r>> is the concatenation "IO error: " + r   *)
(*   - a C++ bool stored in a result struct is 0 or 1                      *)
(*   - a scalar that the code never initialised holds Indet; Vals(x) is    *)
(*     the set of values a reader of such a field can observe              *)
(*   - width, height and pixelsSize of encode are 32-bit values written as *)
(*     little-endian base-256 digit sequences, because their products do   *)
(*     not fit the model checker's integers                                *)
(***************************************************************************)
EXTENDS Integers, Sequences, FiniteSets, TLC

\* ------------------------------------------------------------------ bounds
\* Largest image width/height of a decoded file.
MaxDim == 2
\* Largest ICC profile size (bytes) of a file.
MaxIcc == 1
\* Largest number of statuses in a row that the dispatchers do not recognise.
MaxOther == 1
\* Largest number of NEED_MORE_OUTPUT rounds of one JPEG-XL encode.
MaxGrow == 1

\* ------------------------------------------------- indeterminate values
\* The content of a scalar field that was never assigned.
Indet == -1
\* What reading a field can yield: the value, or anything when it is Indet.
Vals(x) == IF x = Indet THEN {0, 57005} ELSE {x}
\* Timing fields are abstracted to: exactly zero, a measured duration, or
\* never assigned.
TZero == "zero"
TMeasured == "measured"
TIndet == "indeterminate"

\* ------------------------------------------------- 32-bit arithmetic
\* Natural numbers as little-endian sequences of base-256 digits.
RECURSIVE MulSmall(_, _, _)
MulSmall(a, d, c) ==
    IF a = <<>> THEN (IF c = 0 THEN <<>> ELSE <<c>>)
    ELSE LET t == Head(a) * d + c
         IN  <<t % 256>> \o MulSmall(Tail(a), d, t \div 256)

RECURSIVE BigAdd(_, _, _)
BigAdd(a, b, c) ==
    IF a = <<>> /\ b = <<>> THEN (IF c = 0 THEN <<>> ELSE <<c>>)
    ELSE LET x == IF a = <<>> THEN 0 ELSE Head(a)
             y == IF b = <<>> THEN 0 ELSE Head(b)
             t == x + y + c
         IN  <<t % 256>> \o BigAdd(IF a = <<>> THEN <<>> ELSE Tail(a),
                                   IF b = <<>> THEN <<>> ELSE Tail(b),
                                   t \div 256)

\* The exact (mathematical) product.
RECURSIVE BigMul(_, _)
BigMul(a, b) ==
    IF b = <<>> THEN <<>>
    ELSE BigAdd(MulSmall(a, Head(b), 0), <<0>> \o BigMul(a, Tail(b)), 0)

\* Digit i (1-based) of a, 0 beyond its length.
Digit(a, i) == IF i <= Len(a) THEN a[i] ELSE 0

\* a < b as numbers, whatever the lengths.
BigLess(a, b) ==
    LET n == IF Len(a) > Len(b) THEN Len(a) ELSE Len(b)
    IN  \E i \in 1..n :
            /\ Digit(a, i) < Digit(b, i)
            /\ \A j \in (i+1)..n : Digit(a, j) = Digit(b, j)

BigIsZero(a) == \A i \in 1..Len(a) : a[i] = 0

\* Reduction modulo 2^(8*bytes): what an unsigned integer of that width keeps.
Wrap(a, bytes) == [i \in 1..bytes |-> Digit(a, i)]

\* A small natural number as a digit sequence.
RECURSIVE ToBig(_)
ToBig(n) == IF n = 0 THEN <<>> ELSE <<n % 256>> \o ToBig(n \div 256)

\* uint32_t is 4 bytes; size_t of the wasm32 build is 4 bytes.
U32Bytes == 4
SizeTBytes == 4
U32(n) == Wrap(ToBig(n), U32Bytes)
\* unsigned multiplication of the given width
MulWrap(a, b, bytes) == Wrap(BigMul(a, b), bytes)

\* ------------------------------------------------- AVIF metadata normaliser
\* avif_dec.cpp colorPrimariesToString: a switch whose default is "unknown".
AvifPrimariesListed ==
    [ AVIF_COLOR_PRIMARIES_BT709 |-> "bt709",
      AVIF_COLOR_PRIMARIES_BT470M |-> "bt470m",
      AVIF_COLOR_PRIMARIES_BT470BG |-> "bt470bg",
      AVIF_COLOR_PRIMARIES_BT601 |-> "bt601",
      AVIF_COLOR_PRIMARIES_SMPTE240 |-> "smpte240",
      AVIF_COLOR_PRIMARIES_GENERIC_FILM |-> "generic-film",
      AVIF_COLOR_PRIMARIES_BT2020 |-> "bt2020",
      AVIF_COLOR_PRIMARIES_XYZ |-> "xyz",
      AVIF_COLOR_PRIMARIES_SMPTE431 |-> "dci-p3",
      AVIF_COLOR_PRIMARIES_SMPTE432 |-> "display-p3",
      AVIF_COLOR_PRIMARIES_EBU3213 |-> "ebu3213" ]

AvifColorPrimariesToString(primaries) ==
    IF primaries \in DOMAIN AvifPrimariesListed
    THEN AvifPrimariesListed[primaries] ELSE "unknown"

\* avif_dec.cpp transferToString
AvifTransferListed ==
    [ AVIF_TRANSFER_CHARACTERISTICS_BT709 |-> "bt709",
      AVIF_TRANSFER_CHARACTERISTICS_BT470M |-> "bt470m",
      AVIF_TRANSFER_CHARACTERISTICS_BT470BG |-> "bt470bg",
      AVIF_TRANSFER_CHARACTERISTICS_BT601 |-> "bt601",
      AVIF_TRANSFER_CHARACTERISTICS_SMPTE240 |-> "smpte240",
      AVIF_TRANSFER_CHARACTERISTICS_LINEAR |-> "linear",
      AVIF_TRANSFER_CHARACTERISTICS_LOG100 |-> "log100",
      AVIF_TRANSFER_CHARACTERISTICS_LOG100_SQRT10 |-> "log100-sqrt10",
      AVIF_TRANSFER_CHARACTERISTICS_IEC61966 |-> "iec61966",
      AVIF_TRANSFER_CHARACTERISTICS_BT1361 |-> "bt1361",
      AVIF_TRANSFER_CHARACTERISTICS_SRGB |-> "srgb",
      AVIF_TRANSFER_CHARACTERISTICS_BT2020_10BIT |-> "bt2020-10bit",
      AVIF_TRANSFER_CHARACTERISTICS_BT2020_12BIT |-> "bt2020-12bit",
      AVIF_TRANSFER_CHARACTERISTICS_PQ |-> "pq",
      AVIF_TRANSFER_CHARACTERISTICS_SMPTE428 |-> "smpte428",
      AVIF_TRANSFER_CHARACTERISTICS_HLG |-> "hlg" ]

AvifTransferToString(tc) ==
    IF tc \in DOMAIN AvifTransferListed THEN AvifTransferListed[tc] ELSE "unknown"

\* avif_dec.cpp matrixToString
AvifMatrixListed ==
    [ AVIF_MATRIX_COEFFICIENTS_IDENTITY |-> "identity",
      AVIF_MATRIX_COEFFICIENTS_BT709 |-> "bt709",
      AVIF_MATRIX_COEFFICIENTS_FCC |-> "fcc",
      AVIF_MATRIX_COEFFICIENTS_BT470BG |-> "bt470bg",
      AVIF_MATRIX_COEFFICIENTS_BT601 |-> "bt601",
      AVIF_MATRIX_COEFFICIENTS_SMPTE240 |-> "smpte240",
      AVIF_MATRIX_COEFFICIENTS_YCGCO |-> "ycgco",
      AVIF_MATRIX_COEFFICIENTS_BT2020_NCL |-> "bt2020-ncl",
      AVIF_MATRIX_COEFFICIENTS_BT2020_CL |-> "bt2020-cl",
      AVIF_MATRIX_COEFFICIENTS_SMPTE2085 |-> "smpte2085",
      AVIF_MATRIX_COEFFICIENTS_CHROMA_DERIVED_NCL |-> "chroma-derived-ncl",
      AVIF_MATRIX_COEFFICIENTS_CHROMA_DERIVED_CL |-> "chroma-derived-cl",
      AVIF_MATRIX_COEFFICIENTS_ICTCP |-> "ictcp" ]

AvifMatrixToString(mc) ==
    IF mc \in DOMAIN AvifMatrixListed THEN AvifMatrixListed[mc] ELSE "unknown"

\* avif_dec.cpp isHDRTransfer
AvifIsHDRTransfer(tc) ==
    tc = "AVIF_TRANSFER_CHARACTERISTICS_PQ" \/ tc = "AVIF_TRANSFER_CHARACTERISTICS_HLG"

\* ------------------------------------------------- JPEG-XL metadata normaliser
\* jxl_dec.cpp colorPrimariesToString
JxlColorPrimariesToString(primaries) ==
    CASE primaries = "JXL_PRIMARIES_SRGB" -> "bt709"
      [] primaries = "JXL_PRIMARIES_2100" -> "bt2020"
      [] primaries = "JXL_PRIMARIES_P3" -> "display-p3"
      [] OTHER -> "unknown"

\* jxl_dec.cpp transferFunctionToString
JxlTransferFunctionToString_enumerator(tf) ==
    CASE tf = "JXL_TRANSFER_FUNCTION_SRGB" -> "srgb"
      [] tf = "JXL_TRANSFER_FUNCTION_LINEAR" -> "linear"
      [] tf = "JXL_TRANSFER_FUNCTION_PQ" -> "pq"
      [] tf = "JXL_TRANSFER_FUNCTION_HLG" -> "hlg"
      [] tf = "JXL_TRANSFER_FUNCTION_709" -> "bt709"
      [] tf = "JXL_TRANSFER_FUNCTION_DCI" -> "dci"
      [] tf = "JXL_TRANSFER_FUNCTION_GAMMA" -> "gamma"
      [] OTHER -> tf

JxlTransferFunctionToString(tf) ==
    CASE tf = "JXL_TRANSFER_FUNCTION_SRGB" -> "srgb"
      [] tf = "JXL_TRANSFER_FUNCTION_LINEAR" -> "linear"
      [] tf = "JXL_TRANSFER_FUNCTION_PQ" -> "pq"
      [] tf = "JXL_TRANSFER_FUNCTION_HLG" -> "hlg"
      [] tf = "JXL_TRANSFER_FUNCTION_709" -> "bt709"
      [] tf = "JXL_TRANSFER_FUNCTION_DCI" -> "dci"
      [] tf = "JXL_TRANSFER_FUNCTION_GAMMA" -> "gamma"
      [] OTHER -> "unknown"

\* jxl_dec.cpp isHDRTransfer
JxlIsHDRTransfer(tf) ==
    tf = "JXL_TRANSFER_FUNCTION_PQ" \/ tf = "JXL_TRANSFER_FUNCTION_HLG"

Bool(b) == IF b THEN 1 ELSE 0

\* ------------------------------------------------- the caller's input
\* What an AVIF file holds, as libavif exposes it in avifImage.
AvifCicp ==
    { [colorPrimaries |-> "AVIF_COLOR_PRIMARIES_BT709",
       matrixCoefficients |-> "AVIF_MATRIX_COEFFICIENTS_BT601",
       yuvRange |-> "AVIF_RANGE_FULL", maxCLL |-> 0, maxPALL |-> 0],
      [colorPrimaries |-> "AVIF_COLOR_PRIMARIES_BT2020",
       matrixCoefficients |-> "AVIF_MATRIX_COEFFICIENTS_BT2020_NCL",
       yuvRange |-> "AVIF_RANGE_LIMITED", maxCLL |-> 1000, maxPALL |-> 400],
      [colorPrimaries |-> "AVIF_COLOR_PRIMARIES_UNSPECIFIED",
       matrixCoefficients |-> "AVIF_MATRIX_COEFFICIENTS_UNSPECIFIED",
       yuvRange |-> "AVIF_RANGE_FULL", maxCLL |-> 0, maxPALL |-> 0] }

AvifTransfers ==
    { "AVIF_TRANSFER_CHARACTERISTICS_SRGB", "AVIF_TRANSFER_CHARACTERISTICS_PQ",
      "AVIF_TRANSFER_CHARACTERISTICS_HLG", "AVIF_TRANSFER_CHARACTERISTICS_LINEAR",
      "AVIF_TRANSFER_CHARACTERISTICS_UNSPECIFIED" }

AvifFile(w, d, fmt, alpha, icc, tc, cicp) ==
    [codec |-> "avif", width |-> w, height |-> 1, depth |-> d, yuvFormat |-> fmt,
     alphaPlane |-> alpha, iccSize |-> icc, transferCharacteristics |-> tc,
     colorPrimaries |-> cicp.colorPrimaries,
     matrixCoefficients |-> cicp.matrixCoefficients,
     yuvRange |-> cicp.yuvRange, maxCLL |-> cicp.maxCLL, maxPALL |-> cicp.maxPALL]

DefaultCicp ==
    CHOOSE c \in AvifCicp : c.colorPrimaries = "AVIF_COLOR_PRIMARIES_BT709"

\* Every depth with every transfer function; every channel layout with every
\* ICC size and width; every colour description.
AvifFiles ==
    { AvifFile(MaxDim, d, "AVIF_PIXEL_FORMAT_YUV420", FALSE, 0, tc, DefaultCicp) :
        d \in {8, 10, 12}, tc \in AvifTransfers }
    \cup
    { AvifFile(w, 8, fmt, alpha, icc, "AVIF_TRANSFER_CHARACTERISTICS_SRGB", DefaultCicp) :
        w \in 1..MaxDim, fmt \in {"AVIF_PIXEL_FORMAT_YUV444", "AVIF_PIXEL_FORMAT_YUV400"},
        alpha \in BOOLEAN, icc \in 0..MaxIcc }
    \cup
    { AvifFile(MaxDim, d, "AVIF_PIXEL_FORMAT_YUV444", TRUE, MaxIcc, tc, cicp) :
        d \in {8, 10}, tc \in {"AVIF_TRANSFER_CHARACTERISTICS_SRGB",
                               "AVIF_TRANSFER_CHARACTERISTICS_PQ"},
        cicp \in AvifCicp }

\* What a JPEG-XL file holds: JxlBasicInfo, the colour encoding (when the
\* file has an enumerated one) and the ICC profile size.
JxlSampleFormats ==
    { <<8, 0>>, <<4, 0>>, <<10, 0>>, <<12, 0>>, <<16, 0>>, <<24, 0>>,
      <<16, 5>>, <<32, 8>>, <<24, 7>>, <<16, 8>> }

JxlColors ==
    { [has |-> FALSE, primaries |-> "JXL_PRIMARIES_SRGB",
       transfer_function |-> "JXL_TRANSFER_FUNCTION_SRGB"],
      [has |-> TRUE, primaries |-> "JXL_PRIMARIES_SRGB",
       transfer_function |-> "JXL_TRANSFER_FUNCTION_SRGB"],
      [has |-> TRUE, primaries |-> "JXL_PRIMARIES_2100",
       transfer_function |-> "JXL_TRANSFER_FUNCTION_PQ"],
      [has |-> TRUE, primaries |-> "JXL_PRIMARIES_P3",
       transfer_function |-> "JXL_TRANSFER_FUNCTION_HLG"],
      [has |-> TRUE, primaries |-> "JXL_PRIMARIES_SRGB",
       transfer_function |-> "JXL_TRANSFER_FUNCTION_LINEAR"],
      [has |-> TRUE, primaries |-> "JXL_PRIMARIES_CUSTOM",
       transfer_function |-> "JXL_TRANSFER_FUNCTION_UNKNOWN"] }

\* The statuses JxlDecoderProcessInput returns, call after call, for a given
\* stream: it is a function of the bytes.  A well-formed still image gives
\* BASIC_INFO, COLOR_ENCODING, NEED_IMAGE_OUT_BUFFER, FULL_IMAGE, SUCCESS; an
\* animation gives one NEED_IMAGE_OUT_BUFFER, FULL_IMAGE pair per frame.  A
\* stream may lack events, hold statuses the bridge has no branch for
\* (JXL_DEC_FRAME stands for them), and end early with an error, a request
\* for more input, or SUCCESS.
JxlHeaders ==
    { <<>>, <<"JXL_DEC_BASIC_INFO">>,
      <<"JXL_DEC_BASIC_INFO", "JXL_DEC_COLOR_ENCODING">> }

JxlFrame == <<"JXL_DEC_NEED_IMAGE_OUT_BUFFER", "JXL_DEC_FULL_IMAGE">>

JxlFrames(k) == IF k = 0 THEN <<>> ELSE IF k = 1 THEN JxlFrame ELSE JxlFrame \o JxlFrame

JxlBodies(maxFrames) ==
    { h \o [i \in 1..x |-> "JXL_DEC_FRAME"] \o JxlFrames(k) :
        h \in JxlHeaders, x \in 0..MaxOther,
        k \in 0..maxFrames }

JxlTerminals == {"JXL_DEC_SUCCESS", "JXL_DEC_ERROR", "JXL_DEC_NEED_MORE_INPUT"}

\* Every body, cut anywhere, then a terminal status.  The output buffer is
\* asked for only after the header was delivered.
JxlStreams(maxFrames) ==
    { st \in UNION { { [i \in 1..k |-> b[i]] \o <<t>> :
                         k \in 0..Len(b), t \in JxlTerminals } :
                       b \in JxlBodies(maxFrames) } :
        \A i \in 1..Len(st) :
            st[i] = "JXL_DEC_NEED_IMAGE_OUT_BUFFER" => st[1] = "JXL_DEC_BASIC_INFO" }

JxlStillStream ==
    <<"JXL_DEC_BASIC_INFO", "JXL_DEC_COLOR_ENCODING">> \o JxlFrame \o <<"JXL_DEC_SUCCESS">>

\* The streams every sample format and colour description is combined with.
JxlMainStreams ==
    { JxlStillStream,
      <<"JXL_DEC_BASIC_INFO">> \o JxlFrame \o <<"JXL_DEC_SUCCESS">>,
      <<"JXL_DEC_BASIC_INFO", "JXL_DEC_COLOR_ENCODING", "JXL_DEC_NEED_MORE_INPUT">> }

JxlFile(w, fmt, ncc, alpha, anim, icc, col, stream) ==
    [codec |-> "jxl", xsize |-> w, ysize |-> 1,
     bits_per_sample |-> fmt[1], exponent_bits_per_sample |-> fmt[2],
     num_color_channels |-> ncc, alpha_bits |-> alpha, have_animation |-> anim,
     iccSize |-> icc, colorEnc |-> col, stream |-> stream]

DefaultJxlColor ==
    CHOOSE c \in JxlColors : c.has /\ c.transfer_function = "JXL_TRANSFER_FUNCTION_SRGB"

IccOnlyJxlColor == CHOOSE c \in JxlColors : ~c.has

JxlFiles ==
    { JxlFile(MaxDim, fmt, 3, 0, FALSE, 0, col, st) :
        fmt \in JxlSampleFormats, col \in JxlColors, st \in JxlMainStreams }
    \cup
    { JxlFile(w, <<8, 0>>, ncc, alpha, FALSE, icc, DefaultJxlColor, st) :
        w \in 1..MaxDim, ncc \in {1, 3}, alpha \in {0, 8}, icc \in 0..MaxIcc,
        st \in JxlMainStreams }
    \cup
    { JxlFile(MaxDim, <<8, 0>>, 3, 8, FALSE, MaxIcc, DefaultJxlColor, st) :
        st \in JxlStreams(1) }
    \cup
    { JxlFile(MaxDim, <<10, 0>>, 3, 0, TRUE, 0, DefaultJxlColor, st) :
        st \in JxlStreams(2) }
    \cup
    \* colour described by an ICC profile only: the enumerated query fails
    { JxlFile(MaxDim, <<8, 0>>, 3, 0, FALSE, MaxIcc, IccOnlyJxlColor, st) :
        st \in JxlMainStreams }

\* The caller holds raw pixels instead of an encoded file.
RawPixels == [codec |-> "raw"]

\* ------------------------------------------------------------------ state
VARIABLES
    file,      \* content of the caller's input buffer (fixed over a behaviour)
    op,        \* the entry point that is running, "none" between calls
    pc,        \* the position of the running call; "done" once it has returned
    args,      \* the arguments of the running call
    result,    \* the result struct being built, returned when pc = "done"
    exit,      \* the return statement taken ("" while running)
    loc,       \* the call's local variables
    heap,      \* blocks malloc'ed by the bridge and not freed: address -> size
    objs,      \* backend objects: how often each was created and destroyed
    uad,       \* TRUE once an object was used after it was destroyed
    calls,     \* the backend calls made by the running call, in order
    lastInfo   \* the last getImageInfo result that was returned for `file`

vars == <<file, op, pc, args, result, exit, loc, heap, objs, uad, calls, lastInfo>>

ObjNames == {"decoder", "rgb", "image", "encoder", "output"}
NoObjs == [o \in ObjNames |-> [created |-> 0, destroyed |-> 0]]
Create(os, o) == [os EXCEPT ![o].created = @ + 1]
Destroy(os, o) == [os EXCEPT ![o].destroyed = @ + 1]
Live(os, o) == os[o].created > os[o].destroyed
Dead(os, o) == os[o].destroyed > 0

NoArgs == [none |-> TRUE]
NoLoc == [none |-> TRUE]
NoResult == [none |-> TRUE]
NoInfo == [none |-> TRUE]
NoHeap == [a \in {} |-> 0]

\* malloc: a fresh non-null address.  (The bridge itself never calls free.)
FreshAddr(h) == 4096 + 16 * Cardinality(DOMAIN h)
Alloc(h, a, n) == [x \in DOMAIN h \cup {a} |-> IF x = a THEN n ELSE h[x]]

\* Reasons avifResultToString can give.
AvifResultStrings == {"Out of memory", "BMFF parsing failed"}

Init ==
    /\ file \in AvifFiles \cup JxlFiles \cup {RawPixels}
    /\ op = "none"
    /\ pc = "idle"
    /\ args = NoArgs
    /\ result = NoResult
    /\ exit = ""
    /\ loc = NoLoc
    /\ heap = NoHeap
    /\ objs = NoObjs
    /\ uad = FALSE
    /\ calls = <<>>
    /\ lastInfo = NoInfo

\* ------------------------------------------------- AVIF extractMetadata
\* `meta` is a default-initialised local: every scalar the function does not
\* assign stays indeterminate.  iccAddr is what malloc returned (0: failure).
AvifExtractMetadata(image, iccAddr) ==
    [colorPrimaries |-> <<AvifColorPrimariesToString(image.colorPrimaries)>>,
     transferFunction |-> <<AvifTransferToString(image.transferCharacteristics)>>,
     matrixCoefficients |-> <<AvifMatrixToString(image.matrixCoefficients)>>,
     fullRange |-> Bool(image.yuvRange = "AVIF_RANGE_FULL"),
     maxCLL |-> image.maxCLL,
     maxPALL |-> image.maxPALL,
     mdPresent |-> 0,
     iccProfilePtr |-> IF image.iccSize > 0 /\ iccAddr # 0 THEN iccAddr ELSE 0,
     iccProfileSize |-> IF image.iccSize > 0 /\ iccAddr # 0 THEN image.iccSize ELSE 0,
     isHDR |-> Bool(AvifIsHDRTransfer(image.transferCharacteristics) \/ image.depth > 8)]

\* The heap after extractMetadata's malloc.
AvifExtractHeap(h, image, iccAddr) ==
    IF image.iccSize > 0 /\ iccAddr # 0 THEN Alloc(h, iccAddr, image.iccSize) ELSE h

\* The outcomes of extractMetadata's malloc: none is made for an absent profile.
IccMallocOutcomes(h, image) ==
    IF image.iccSize > 0 THEN {0, FreshAddr(h)} ELSE {0}

\* A default-initialised ImageMetadata (std::string members are empty).
IndetMetadata ==
    [colorPrimaries |-> <<>>, transferFunction |-> <<>>, matrixCoefficients |-> <<>>,
     fullRange |-> Indet, maxCLL |-> Indet, maxPALL |-> Indet, mdPresent |-> Indet,
     iccProfilePtr |-> Indet, iccProfileSize |-> Indet, isHDR |-> Indet]

AvifIndetTimings ==
    [io |-> TIndet, parse |-> TIndet, decode |-> TIndet, yuvToRgb |-> TIndet,
     memcpy |-> TIndet, total |-> TIndet]

\* channels = colorChannels + alphaChannel
AvifChannels(image) ==
    (IF image.yuvFormat = "AVIF_PIXEL_FORMAT_YUV400" THEN 1 ELSE 3)
    + (IF image.alphaPlane THEN 1 ELSE 0)

\* outputDepth of decode
AvifOutputDepth_unclamped(targetBitDepth, image) ==
    IF targetBitDepth > 0 THEN targetBitDepth ELSE image.depth

AvifOutputDepth(targetBitDepth, image) ==
    LET d0 == IF targetBitDepth > 0 THEN targetBitDepth ELSE image.depth
        d1 == IF d0 < 8 THEN 8 ELSE d0
    IN  IF d1 > 16 THEN 16 ELSE d1

\* rgb.format of decode
AvifRgbFormat(channels) ==
    IF channels = 4 THEN "AVIF_RGB_FORMAT_RGBA"
    ELSE IF channels = 3 THEN "AVIF_RGB_FORMAT_RGB" ELSE "AVIF_RGB_FORMAT_GRAY"

\* Samples per pixel of an avifRGBFormat (libavif's avifRGBFormatChannelCount).
RgbFormatSamples(format) ==
    CASE format = "AVIF_RGB_FORMAT_RGBA" -> 4
      [] format = "AVIF_RGB_FORMAT_RGB" -> 3
      [] OTHER -> 1

\* rgb.rowBytes * rgb.height as avifRGBImageAllocatePixels sets them; rowBytes
\* stays 0 (avifRGBImageSetDefaults) when the allocation failed.
AvifRgbBytes(image, format, depth, allocated) ==
    IF allocated
    THEN image.width * RgbFormatSamples(format) * (IF depth > 8 THEN 2 ELSE 1) * image.height
    ELSE 0

\* ------------------------------------------------- AVIF decode
TargetDepths == {-1, 0, 4, 8, 10, 32}
ThreadCounts == {0, 4}

\* The cleanup of decode's late error exits and of its success exit:
\* avifRGBImageFreePixels (a no-op on pixels that were never allocated), then
\* avifDecoderDestroy.
AvifDecodeCleanup_leak(os, rgbAllocated) ==
    IF rgbAllocated THEN Destroy(os, "rgb") ELSE os

AvifDecodeCleanup(os, rgbAllocated) ==
    Destroy(IF rgbAllocated THEN Destroy(os, "rgb") ELSE os, "decoder")

\* decode(): result initialisation and avifDecoderCreate
AvifDecode_Call ==
    /\ op = "none" /\ file.codec = "avif"
    /\ \E targetBitDepth \in TargetDepths, maxThreads \in ThreadCounts, ok \in BOOLEAN :
        LET r0 == [dataPtr |-> 0, dataSize |-> 0, width |-> 0, height |-> 0,
                   depth |-> 8, channels |-> 0, metadata |-> IndetMetadata,
                   error |-> <<>>, timings |-> AvifIndetTimings]
        IN
        \* every target depth single-threaded, the default depth with threads
        /\ maxThreads = 0 \/ targetBitDepth = 0
        /\ op' = "avif.decode"
        /\ args' = [inputPtr |-> 1024, targetBitDepth |-> targetBitDepth,
                    maxThreads |-> maxThreads]
        /\ calls' = <<"avifDecoderCreate">>
        /\ heap' = NoHeap /\ uad' = FALSE
        /\ IF ok
           THEN /\ result' = r0
                /\ objs' = Create(NoObjs, "decoder")
                /\ loc' = [timings |-> AvifIndetTimings,
                           maxThreads |-> IF maxThreads > 0 THEN maxThreads ELSE 1,
                           rgbAllocated |-> FALSE]
                /\ pc' = "setIO" /\ exit' = ""
           ELSE /\ result' = [r0 EXCEPT !.error = <<"Failed to create decoder">>]
                /\ objs' = NoObjs
                /\ loc' = [timings |-> AvifIndetTimings]
                /\ pc' = "done" /\ exit' = "create-failed"
    /\ UNCHANGED <<file, lastInfo>>

\* avifDecoderSetIOMemory
AvifDecode_SetIO ==
    /\ op = "avif.decode" /\ pc = "setIO"
    /\ calls' = Append(calls, "avifDecoderSetIOMemory")
    /\ uad' = (uad \/ Dead(objs, "decoder"))
    /\ loc' = [loc EXCEPT !.timings.io = TMeasured]
    /\ \/ /\ pc' = "parse"
          /\ UNCHANGED <<result, objs, exit>>
       \/ \E why \in AvifResultStrings :
          /\ result' = [result EXCEPT !.error = <<"IO error: ", why>>]
          /\ objs' = Destroy(objs, "decoder")
          /\ pc' = "done" /\ exit' = "io-failed"
    /\ UNCHANGED <<file, op, args, heap, lastInfo>>

\* avifDecoderParse
AvifDecode_Parse ==
    /\ op = "avif.decode" /\ pc = "parse"
    /\ calls' = Append(calls, "avifDecoderParse")
    /\ uad' = (uad \/ Dead(objs, "decoder"))
    /\ loc' = [loc EXCEPT !.timings.parse = TMeasured]
    /\ \/ /\ pc' = "nextImage"
          /\ UNCHANGED <<result, objs, exit>>
       \/ \E why \in AvifResultStrings :
          /\ result' = [result EXCEPT !.error = <<"Parse error: ", why>>]
          /\ objs' = Destroy(objs, "decoder")
          /\ pc' = "done" /\ exit' = "parse-failed"
    /\ UNCHANGED <<file, op, args, heap, lastInfo>>

\* avifDecoderNextImage
AvifDecode_NextImage_retry ==
    /\ op = "avif.decode" /\ pc = "nextImage"
    /\ uad' = (uad \/ Dead(objs, "decoder"))
    /\ loc' = [loc EXCEPT !.timings.decode = TMeasured]
    /\ \/ /\ calls' = Append(calls, "avifDecoderNextImage")
          /\ pc' = "extract"
          /\ UNCHANGED <<result, objs, exit>>
       \/ \E why \in AvifResultStrings :
          /\ calls' = calls \o <<"avifDecoderNextImage", "avifDecoderNextImage">>
          /\ result' = [result EXCEPT !.error = <<"Decode error: ", why>>]
          /\ objs' = Destroy(objs, "decoder")
          /\ pc' = "done" /\ exit' = "decode-failed"
    /\ UNCHANGED <<file, op, args, heap, lastInfo>>

AvifDecode_NextImage ==
    /\ op = "avif.decode" /\ pc = "nextImage"
    /\ calls' = Append(calls, "avifDecoderNextImage")
    /\ uad' = (uad \/ Dead(objs, "decoder"))
    /\ loc' = [loc EXCEPT !.timings.decode = TMeasured]
    /\ \/ /\ pc' = "extract"
          /\ UNCHANGED <<result, objs, exit>>
       \/ \E why \in AvifResultStrings :
          /\ result' = [result EXCEPT !.error = <<"Decode error: ", why>>]
          /\ objs' = Destroy(objs, "decoder")
          /\ pc' = "done" /\ exit' = "decode-failed"
    /\ UNCHANGED <<file, op, args, heap, lastInfo>>

\* image = decoder->image; width, height, depth, channels, extractMetadata
AvifDecode_Extract ==
    /\ op = "avif.decode" /\ pc = "extract"
    /\ uad' = (uad \/ Dead(objs, "decoder"))
    /\ \E iccAddr \in IccMallocOutcomes(heap, file) :
        /\ result' = [result EXCEPT !.width = file.width, !.height = file.height,
                                    !.depth = file.depth, !.channels = AvifChannels(file),
                                    !.metadata = AvifExtractMetadata(file, iccAddr)]
        /\ heap' = AvifExtractHeap(heap, file, iccAddr)
    /\ pc' = "convert"
    /\ UNCHANGED <<file, op, args, exit, loc, objs, calls, lastInfo>>

\* avifRGBImageSetDefaults, avifRGBImageAllocatePixels (its status is not
\* read), avifImageYUVToRGB
AvifDecode_Convert ==
    /\ op = "avif.decode" /\ pc = "convert"
    /\ calls' = calls \o <<"avifRGBImageAllocatePixels", "avifImageYUVToRGB">>
    /\ uad' = (uad \/ Dead(objs, "decoder"))
    /\ \E allocated \in BOOLEAN :
        LET outputDepth == AvifOutputDepth(args.targetBitDepth, file)
            format == AvifRgbFormat(result.channels)
            os == IF allocated THEN Create(objs, "rgb") ELSE objs
            l1 == [loc EXCEPT !.timings.yuvToRgb = TMeasured] @@
                  [outputDepth |-> outputDepth, format |-> format,
                   rgbBytes |-> AvifRgbBytes(file, format, outputDepth, allocated)]
        IN
        /\ loc' = [l1 EXCEPT !.rgbAllocated = allocated]
        /\ \/ /\ objs' = os
              /\ pc' = "output"
              /\ UNCHANGED <<result, exit>>
           \/ \E why \in AvifResultStrings :
              /\ result' = [result EXCEPT !.error = <<"YUV to RGB error: ", why>>]
              /\ objs' = AvifDecodeCleanup(os, allocated)
              /\ pc' = "done" /\ exit' = "convert-failed"
    /\ UNCHANGED <<file, op, args, heap, lastInfo>>

\* malloc of the output buffer, memcpy, cleanup, timings
AvifDecode_Output ==
    /\ op = "avif.decode" /\ pc = "output"
    /\ calls' = Append(calls, "malloc")
    /\ LET dataSize == loc.rgbBytes IN
       \/ /\ result' = [result EXCEPT !.error = <<"Failed to allocate output buffer">>]
          /\ objs' = AvifDecodeCleanup(objs, loc.rgbAllocated)
          /\ uad' = uad
          /\ exit' = "alloc-failed"
          /\ UNCHANGED <<heap, loc>>
       \/ LET dataPtr == FreshAddr(heap)
              t == [loc.timings EXCEPT !.memcpy = TMeasured, !.total = TMeasured]
          IN
          /\ heap' = Alloc(heap, dataPtr, dataSize)
          \* memcpy reads rgb.pixels
          /\ uad' = (uad \/ Dead(objs, "rgb"))
          /\ result' = [result EXCEPT !.dataPtr = dataPtr, !.dataSize = dataSize,
                                      !.depth = loc.outputDepth, !.timings = t]
          /\ loc' = [loc EXCEPT !.timings = t]
          /\ objs' = AvifDecodeCleanup(objs, loc.rgbAllocated)
          /\ exit' = "ok"
    /\ pc' = "done"
    /\ UNCHANGED <<file, op, args, lastInfo>>

\* ------------------------------------------------- AVIF getImageInfo
\* getImageInfo(): info initialisation and avifDecoderCreate
AvifInfo_Call ==
    /\ op = "none" /\ file.codec = "avif"
    /\ \E ok \in BOOLEAN :
        /\ op' = "avif.getImageInfo"
        /\ args' = [inputPtr |-> 1024]
        /\ calls' = <<"avifDecoderCreate">>
        /\ heap' = NoHeap /\ uad' = FALSE
        /\ result' = [width |-> 0, height |-> 0, depth |-> 0, channels |-> 0,
                      metadata |-> IndetMetadata]
        /\ loc' = [maxThreads |-> 1]
        /\ IF ok
           THEN objs' = Create(NoObjs, "decoder") /\ pc' = "setIO" /\ exit' = ""
           ELSE objs' = NoObjs /\ pc' = "done" /\ exit' = "create-failed"
    /\ UNCHANGED <<file, lastInfo>>

\* avifDecoderSetIOMemory
AvifInfo_SetIO ==
    /\ op = "avif.getImageInfo" /\ pc = "setIO"
    /\ calls' = Append(calls, "avifDecoderSetIOMemory")
    /\ uad' = (uad \/ Dead(objs, "decoder"))
    /\ \/ /\ pc' = "parse"
          /\ UNCHANGED <<objs, exit>>
       \/ /\ objs' = Destroy(objs, "decoder")
          /\ pc' = "done" /\ exit' = "io-failed"
    /\ UNCHANGED <<file, op, args, result, loc, heap, lastInfo>>

\* avifDecoderParse
AvifInfo_Parse_decoding ==
    /\ op = "avif.getImageInfo" /\ pc = "parse"
    /\ calls' = calls \o <<"avifDecoderParse", "avifDecoderNextImage">>
    /\ uad' = (uad \/ Dead(objs, "decoder"))
    /\ \/ /\ pc' = "extract"
          /\ UNCHANGED <<objs, exit>>
       \/ /\ objs' = Destroy(objs, "decoder")
          /\ pc' = "done" /\ exit' = "parse-failed"
    /\ UNCHANGED <<file, op, args, result, loc, heap, lastInfo>>

AvifInfo_Parse ==
    /\ op = "avif.getImageInfo" /\ pc = "parse"
    /\ calls' = Append(calls, "avifDecoderParse")
    /\ uad' = (uad \/ Dead(objs, "decoder"))
    /\ \/ /\ pc' = "extract"
          /\ UNCHANGED <<objs, exit>>
       \/ /\ objs' = Destroy(objs, "decoder")
          /\ pc' = "done" /\ exit' = "parse-failed"
    /\ UNCHANGED <<file, op, args, result, loc, heap, lastInfo>>

\* image = decoder->image; the fields, extractMetadata, avifDecoderDestroy
AvifInfo_Extract_keepsDecoder ==
    /\ op = "avif.getImageInfo" /\ pc = "extract"
    /\ uad' = (uad \/ Dead(objs, "decoder"))
    /\ \E iccAddr \in IccMallocOutcomes(heap, file) :
        /\ result' = [result EXCEPT !.width = file.width, !.height = file.height,
                                    !.depth = file.depth, !.channels = AvifChannels(file),
                                    !.metadata = AvifExtractMetadata(file, iccAddr)]
        /\ heap' = AvifExtractHeap(heap, file, iccAddr)
    /\ pc' = "done" /\ exit' = "ok"
    /\ UNCHANGED <<file, op, args, loc, objs, calls, lastInfo>>

AvifInfo_Extract ==
    /\ op = "avif.getImageInfo" /\ pc = "extract"
    /\ uad' = (uad \/ Dead(objs, "decoder"))
    /\ \E iccAddr \in IccMallocOutcomes(heap, file) :
        /\ result' = [result EXCEPT !.width = file.width, !.height = file.height,
                                    !.depth = file.depth, !.channels = AvifChannels(file),
                                    !.metadata = AvifExtractMetadata(file, iccAddr)]
        /\ heap' = AvifExtractHeap(heap, file, iccAddr)
    /\ objs' = Destroy(objs, "decoder")
    /\ pc' = "done" /\ exit' = "ok"
    /\ UNCHANGED <<file, op, args, loc, calls, lastInfo>>

\* ------------------------------------------------- JPEG-XL decode
\* MAX_THREADS is fixed by the build: 1 without, more with threads.
BuildMaxThreads == {1, 8}

\* `DecodeResult result = {}` / `ImageInfo info = {}`: value-initialised.
JxlZeroMetadata ==
    [colorPrimaries |-> <<>>, transferFunction |-> <<>>, matrixCoefficients |-> <<>>,
     fullRange |-> 0, maxCLL |-> 0, maxPALL |-> 0, mdPresent |-> 0,
     iccProfilePtr |-> 0, iccProfileSize |-> 0, isHDR |-> 0,
     isAnimated |-> 0, frameCount |-> 0]

JxlZeroTimings ==
    [setup |-> TZero, basicInfo |-> TZero, colorInfo |-> TZero, decode |-> TZero,
     memcpy |-> TZero, total |-> TZero]

\* `DecodeResult errorResult;`: default-initialised, only the strings are set.
JxlIndetResult ==
    [dataPtr |-> Indet, dataSize |-> Indet, width |-> Indet, height |-> Indet,
     depth |-> Indet, channels |-> Indet, dataType |-> <<>>,
     metadata |-> [colorPrimaries |-> <<>>, transferFunction |-> <<>>,
                   matrixCoefficients |-> <<>>,
                   fullRange |-> Indet, maxCLL |-> Indet, maxPALL |-> Indet,
                   mdPresent |-> Indet, iccProfilePtr |-> Indet,
                   iccProfileSize |-> Indet, isHDR |-> Indet,
                   isAnimated |-> Indet, frameCount |-> Indet],
     error |-> <<>>,
     timings |-> [setup |-> TIndet, basicInfo |-> TIndet, colorInfo |-> TIndet,
                  decode |-> TIndet, memcpy |-> TIndet, total |-> TIndet]]

\* channels = num_color_channels + (alpha_bits > 0 ? 1 : 0)
JxlChannels(info) == info.num_color_channels + (IF info.alpha_bits > 0 THEN 1 ELSE 0)

\* The sample format picked on NEED_IMAGE_OUT_BUFFER: data type, depth and
\* dataType string; "unsupported" for a float format that is neither
\* float16 nor float32.
JxlOutputFormat(info) ==
    IF info.exponent_bits_per_sample > 0
    THEN IF info.exponent_bits_per_sample = 5 /\ info.bits_per_sample = 16
         THEN [data_type |-> "JXL_TYPE_FLOAT16", depth |-> 16, dataType |-> <<"float16">>]
         ELSE IF info.exponent_bits_per_sample = 8 /\ info.bits_per_sample = 32
         THEN [data_type |-> "JXL_TYPE_FLOAT", depth |-> 32, dataType |-> <<"float32">>]
         ELSE [data_type |-> "unsupported", depth |-> 0, dataType |-> <<>>]
    ELSE LET d0 == info.bits_per_sample
             d1 == IF d0 < 8 THEN 8 ELSE d0
             outDepth == IF d1 > 16 THEN 16 ELSE d1
         IN  [data_type |-> IF outDepth > 8 THEN "JXL_TYPE_UINT16" ELSE "JXL_TYPE_UINT8",
              depth |-> outDepth,
              dataType |-> IF outDepth > 8 THEN <<"uint16">> ELSE <<"uint8">>]

\* Bytes of one sample of a JxlDataType.
JxlTypeBytes(data_type) ==
    CASE data_type = "JXL_TYPE_UINT8" -> 1
      [] data_type = "JXL_TYPE_UINT16" -> 2
      [] data_type = "JXL_TYPE_FLOAT16" -> 2
      [] OTHER -> 4

\* What JxlDecoderImageOutBufferSize reports for format (num_channels, type).
JxlBufferSize(info, num_channels, data_type) ==
    info.xsize * info.ysize * num_channels * JxlTypeBytes(data_type)

\* The metadata decode and getImageInfo fill in after their loop.
JxlFillMetadata_noDefault(meta, hasColorEnc, colorEnc, depth) ==
    [meta EXCEPT
        !.colorPrimaries = IF hasColorEnc
                           THEN <<JxlColorPrimariesToString(colorEnc.primaries)>>
                           ELSE @,
        !.transferFunction = IF hasColorEnc
                             THEN <<JxlTransferFunctionToString(colorEnc.transfer_function)>>
                             ELSE @,
        !.matrixCoefficients = <<"identity">>,
        !.fullRange = 1,
        !.isHDR = Bool((hasColorEnc /\ JxlIsHDRTransfer(colorEnc.transfer_function))
                       \/ depth > 8),
        !.maxCLL = 0, !.maxPALL = 0, !.mdPresent = 0]

JxlFillMetadata(meta, hasColorEnc, colorEnc, depth) ==
    [meta EXCEPT
        !.colorPrimaries = IF hasColorEnc
                           THEN <<JxlColorPrimariesToString(colorEnc.primaries)>>
                           ELSE <<"unknown">>,
        !.transferFunction = IF hasColorEnc
                             THEN <<JxlTransferFunctionToString(colorEnc.transfer_function)>>
                             ELSE <<"unknown">>,
        !.matrixCoefficients = <<"identity">>,
        !.fullRange = 1,
        !.isHDR = Bool((hasColorEnc /\ JxlIsHDRTransfer(colorEnc.transfer_function))
                       \/ depth > 8),
        !.maxCLL = 0, !.maxPALL = 0, !.mdPresent = 0]

\* decode(): initialisation, JxlDecoderMake, the parallel runner of a threaded
\* build, JxlDecoderSubscribeEvents, JxlDecoderSetInput, JxlDecoderCloseInput
JxlDecode_Call ==
    /\ op = "none" /\ file.codec = "jxl"
    /\ \E maxThreads \in ThreadCounts, MAX_THREADS \in BuildMaxThreads,
          failAt \in {"", "make", "runner", "subscribe"} :
        LET r0 == [dataPtr |-> 0, dataSize |-> 0, width |-> 0, height |-> 0,
                   depth |-> 8, channels |-> 0, dataType |-> <<>>,
                   metadata |-> JxlZeroMetadata, error |-> <<>>,
                   timings |-> JxlZeroTimings]
            withRunner == MAX_THREADS > 1 /\ maxThreads > 1
        IN
        /\ failAt = "runner" => withRunner
        /\ withRunner \/ MAX_THREADS = 1
        /\ op' = "jxl.decode"
        /\ args' = [inputPtr |-> 1024, maxThreads |-> maxThreads,
                    MAX_THREADS |-> MAX_THREADS]
        /\ heap' = NoHeap /\ uad' = FALSE /\ objs' = NoObjs
        /\ loc' = [timings |-> IF failAt = "" THEN [JxlZeroTimings EXCEPT !.setup = TMeasured]
                                ELSE JxlZeroTimings,
                   hasInfo |-> FALSE, pixels |-> 0, iccProfile |-> 0,
                   hasColorEnc |-> FALSE, n |-> 0, bound |-> FALSE,
                   handled |-> {}]
        /\ CASE failAt = "make" ->
                  /\ result' = [r0 EXCEPT !.error = <<"Failed to create JXL decoder">>]
                  /\ calls' = <<"JxlDecoderMake">>
                  /\ pc' = "done" /\ exit' = "create-failed"
             [] failAt = "runner" ->
                  /\ result' = [r0 EXCEPT !.error = <<"Failed to set parallel runner">>]
                  /\ calls' = <<"JxlDecoderMake", "JxlDecoderSetParallelRunner">>
                  /\ pc' = "done" /\ exit' = "runner-failed"
             [] failAt = "subscribe" ->
                  /\ result' = [r0 EXCEPT !.error = <<"Failed to subscribe to events">>]
                  /\ calls' = <<"JxlDecoderMake">>
                               \o (IF withRunner THEN <<"JxlDecoderSetParallelRunner">> ELSE <<>>)
                               \o <<"JxlDecoderSubscribeEvents">>
                  /\ pc' = "done" /\ exit' = "subscribe-failed"
             [] OTHER ->
                  /\ result' = r0
                  /\ calls' = <<"JxlDecoderMake">>
                               \o (IF withRunner THEN <<"JxlDecoderSetParallelRunner">> ELSE <<>>)
                               \o <<"JxlDecoderSubscribeEvents", "JxlDecoderSetInput",
                                    "JxlDecoderCloseInput">>
                  /\ pc' = "loop" /\ exit' = ""
    /\ UNCHANGED <<file, lastInfo>>

\* What the next JxlDecoderProcessInput call returns: the next status of the
\* stream, and an error once the stream has nothing left to give.
NextStatus ==
    IF loc.n < Len(file.stream) THEN file.stream[loc.n + 1] ELSE "JXL_DEC_ERROR"

\* status == JXL_DEC_ERROR
JxlDecode_Error ==
    /\ op = "jxl.decode" /\ pc = "loop" /\ NextStatus = "JXL_DEC_ERROR"
    /\ loc' = [loc EXCEPT !.n = @ + 1]
    /\ result' = [result EXCEPT !.error = <<"Decoder error">>]
    /\ pc' = "done" /\ exit' = "decoder-error"
    /\ UNCHANGED <<file, op, args, heap, objs, uad, calls, lastInfo>>

\* status == JXL_DEC_NEED_MORE_INPUT
JxlDecode_NeedMoreInput_resume ==
    /\ op = "jxl.decode" /\ pc = "loop" /\ NextStatus = "JXL_DEC_NEED_MORE_INPUT"
    /\ loc' = [loc EXCEPT !.n = @ + 1]
    /\ UNCHANGED <<file, op, pc, args, result, exit, heap, objs, uad, calls, lastInfo>>

JxlDecode_NeedMoreInput ==
    /\ op = "jxl.decode" /\ pc = "loop" /\ NextStatus = "JXL_DEC_NEED_MORE_INPUT"
    /\ loc' = [loc EXCEPT !.n = @ + 1]
    /\ result' = [result EXCEPT !.error = <<"Incomplete input data">>]
    /\ pc' = "done" /\ exit' = "need-more-input"
    /\ UNCHANGED <<file, op, args, heap, objs, uad, calls, lastInfo>>

\* status == JXL_DEC_BASIC_INFO
JxlDecode_BasicInfo ==
    /\ op = "jxl.decode" /\ pc = "loop" /\ NextStatus = "JXL_DEC_BASIC_INFO"
    /\ calls' = Append(calls, "JxlDecoderGetBasicInfo")
    /\ \/ /\ result' = [result EXCEPT !.error = <<"Failed to get basic info">>]
          /\ loc' = [loc EXCEPT !.n = @ + 1]
          /\ pc' = "done" /\ exit' = "basic-info-failed"
       \/ /\ result' = [result EXCEPT
                !.width = file.xsize, !.height = file.ysize,
                !.depth = file.bits_per_sample, !.channels = JxlChannels(file),
                !.metadata.isAnimated = Bool(file.have_animation),
                !.metadata.frameCount = IF file.have_animation THEN 0 ELSE 1]
          /\ loc' = [loc EXCEPT !.n = @ + 1, !.hasInfo = TRUE,
                                !.handled = @ \cup {"BASIC_INFO"},
                                !.timings.basicInfo = TMeasured]
          /\ UNCHANGED <<pc, exit>>
    /\ UNCHANGED <<file, op, args, heap, objs, uad, lastInfo>>

\* status == JXL_DEC_COLOR_ENCODING
JxlDecode_ColorEncoding ==
    /\ op = "jxl.decode" /\ pc = "loop" /\ NextStatus = "JXL_DEC_COLOR_ENCODING"
    /\ calls' = Append(calls, "JxlDecoderGetColorAsEncodedProfile")
    /\ \E iccRead \in BOOLEAN :
        loc' = [loc EXCEPT !.n = @ + 1,
                           !.handled = @ \cup {"COLOR_ENCODING"},
                           !.iccProfile = IF iccRead THEN file.iccSize ELSE 0,
                           !.hasColorEnc = file.colorEnc.has,
                           !.timings.colorInfo = TMeasured]
    /\ UNCHANGED <<file, op, pc, args, result, exit, heap, objs, uad, lastInfo>>

\* status == JXL_DEC_NEED_IMAGE_OUT_BUFFER
JxlDecode_NeedImageOutBuffer ==
    /\ op = "jxl.decode" /\ pc = "loop" /\ NextStatus = "JXL_DEC_NEED_IMAGE_OUT_BUFFER"
    /\ LET fmt == JxlOutputFormat(file)
           bufferSize == JxlBufferSize(file, result.channels, fmt.data_type)
       IN
       IF fmt.data_type = "unsupported"
       THEN /\ result' = [JxlIndetResult EXCEPT !.error = <<"Unsupported float format">>]
            /\ loc' = [loc EXCEPT !.n = @ + 1]
            /\ pc' = "done" /\ exit' = "unsupported-float"
            /\ calls' = calls
       ELSE \/ /\ result' = [result EXCEPT !.depth = fmt.depth, !.dataType = fmt.dataType,
                                           !.error = <<"Failed to get output buffer size">>]
               /\ loc' = [loc EXCEPT !.n = @ + 1]
               /\ calls' = Append(calls, "JxlDecoderImageOutBufferSize")
               /\ pc' = "done" /\ exit' = "buffer-size-failed"
            \/ /\ result' = [result EXCEPT !.depth = fmt.depth, !.dataType = fmt.dataType,
                                           !.error = <<"Failed to set output buffer">>]
               /\ loc' = [loc EXCEPT !.n = @ + 1, !.pixels = bufferSize]
               /\ calls' = calls \o <<"JxlDecoderImageOutBufferSize",
                                      "JxlDecoderSetImageOutBuffer">>
               /\ pc' = "done" /\ exit' = "set-buffer-failed"
            \/ /\ result' = [result EXCEPT !.depth = fmt.depth, !.dataType = fmt.dataType]
               /\ loc' = [loc EXCEPT !.n = @ + 1, !.pixels = bufferSize, !.bound = TRUE,
                                     !.handled = @ \cup {"NEED_IMAGE_OUT_BUFFER"}]
               /\ calls' = calls \o <<"JxlDecoderImageOutBufferSize",
                                      "JxlDecoderSetImageOutBuffer">>
               /\ UNCHANGED <<pc, exit>>
    /\ UNCHANGED <<file, op, args, heap, objs, uad, lastInfo>>

\* status == JXL_DEC_FULL_IMAGE
JxlDecode_FullImage ==
    /\ op = "jxl.decode" /\ pc = "loop" /\ NextStatus = "JXL_DEC_FULL_IMAGE"
    /\ loc' = [loc EXCEPT !.n = @ + 1, !.bound = FALSE,
                          !.handled = @ \cup {"FULL_IMAGE"},
                          !.timings.decode = TMeasured]
    /\ UNCHANGED <<file, op, pc, args, result, exit, heap, objs, uad, calls, lastInfo>>

\* any other status: no branch of the dispatcher matches it
JxlDecode_OtherEvent_break ==
    /\ op = "jxl.decode" /\ pc = "loop" /\ NextStatus = "JXL_DEC_FRAME"
    /\ loc' = [loc EXCEPT !.n = @ + 1]
    /\ pc' = "output"
    /\ UNCHANGED <<file, op, args, result, exit, heap, objs, uad, calls, lastInfo>>

JxlDecode_OtherEvent ==
    /\ op = "jxl.decode" /\ pc = "loop" /\ NextStatus = "JXL_DEC_FRAME"
    /\ loc' = [loc EXCEPT !.n = @ + 1]
    /\ UNCHANGED <<file, op, pc, args, result, exit, heap, objs, uad, calls, lastInfo>>

\* status == JXL_DEC_SUCCESS: break
JxlDecode_Success ==
    /\ op = "jxl.decode" /\ pc = "loop" /\ NextStatus = "JXL_DEC_SUCCESS"
    /\ loc' = [loc EXCEPT !.n = @ + 1, !.handled = @ \cup {"SUCCESS"}]
    /\ pc' = "output"
    /\ UNCHANGED <<file, op, args, result, exit, heap, objs, uad, calls, lastInfo>>

\* after the loop: malloc and memcpy of the pixels, metadata, ICC copy, timings
JxlDecode_Output ==
    /\ op = "jxl.decode" /\ pc = "output"
    /\ \/ /\ result' = [result EXCEPT !.error = <<"Failed to allocate output buffer">>]
          /\ calls' = Append(calls, "malloc")
          /\ exit' = "alloc-failed"
          /\ UNCHANGED <<heap, loc>>
       \/ \E iccOk \in BOOLEAN :
          LET dataPtr == FreshAddr(heap)
              h1 == Alloc(heap, dataPtr, loc.pixels)
              iccPtr == FreshAddr(h1)
              copied == loc.iccProfile > 0 /\ iccOk
              m1 == JxlFillMetadata(result.metadata, loc.hasColorEnc, file.colorEnc,
                                    result.depth)
              t == [loc.timings EXCEPT !.memcpy = TMeasured, !.total = TMeasured]
          IN
          /\ heap' = IF copied THEN Alloc(h1, iccPtr, loc.iccProfile) ELSE h1
          /\ calls' = calls \o (IF loc.iccProfile > 0 THEN <<"malloc", "malloc">>
                                                      ELSE <<"malloc">>)
          /\ result' = [result EXCEPT
                !.dataPtr = dataPtr, !.dataSize = loc.pixels,
                !.metadata = IF copied
                             THEN [m1 EXCEPT !.iccProfilePtr = iccPtr,
                                             !.iccProfileSize = loc.iccProfile]
                             ELSE IF loc.iccProfile > 0 THEN m1
                             ELSE [m1 EXCEPT !.iccProfilePtr = 0, !.iccProfileSize = 0],
                !.timings = t]
          /\ loc' = [loc EXCEPT !.timings = t]
          /\ exit' = "ok"
    /\ pc' = "done"
    /\ UNCHANGED <<file, op, args, objs, uad, lastInfo>>

\* ------------------------------------------------- JPEG-XL getImageInfo
\* getImageInfo(): initialisation, JxlDecoderMake, JxlDecoderSubscribeEvents
\* (BASIC_INFO | COLOR_ENCODING only), JxlDecoderSetInput, JxlDecoderCloseInput
JxlInfo_Call ==
    /\ op = "none" /\ file.codec = "jxl"
    /\ \E failAt \in {"", "make", "subscribe"} :
        /\ op' = "jxl.getImageInfo"
        /\ args' = [inputPtr |-> 1024]
        /\ heap' = NoHeap /\ uad' = FALSE /\ objs' = NoObjs
        /\ result' = [width |-> 0, height |-> 0, depth |-> 0, channels |-> 0,
                      metadata |-> JxlZeroMetadata]
        /\ loc' = [hasInfo |-> FALSE, iccProfile |-> 0, hasColorEnc |-> FALSE,
                   n |-> 0, handled |-> {}]
        /\ CASE failAt = "make" ->
                  /\ calls' = <<"JxlDecoderMake">>
                  /\ pc' = "done" /\ exit' = "create-failed"
             [] failAt = "subscribe" ->
                  /\ calls' = <<"JxlDecoderMake", "JxlDecoderSubscribeEvents">>
                  /\ pc' = "done" /\ exit' = "subscribe-failed"
             [] OTHER ->
                  /\ calls' = <<"JxlDecoderMake", "JxlDecoderSubscribeEvents",
                                "JxlDecoderSetInput", "JxlDecoderCloseInput">>
                  /\ pc' = "loop" /\ exit' = ""
    /\ UNCHANGED <<file, lastInfo>>

\* status == JXL_DEC_ERROR || status == JXL_DEC_NEED_MORE_INPUT: return info
JxlInfo_Error ==
    /\ op = "jxl.getImageInfo" /\ pc = "loop"
    /\ NextStatus \in {"JXL_DEC_ERROR", "JXL_DEC_NEED_MORE_INPUT"}
    /\ exit' = IF NextStatus = "JXL_DEC_ERROR" THEN "decoder-error" ELSE "need-more-input"
    /\ loc' = [loc EXCEPT !.n = @ + 1]
    /\ pc' = "done"
    /\ UNCHANGED <<file, op, args, result, heap, objs, uad, calls, lastInfo>>

\* status == JXL_DEC_BASIC_INFO
JxlInfo_BasicInfo ==
    /\ op = "jxl.getImageInfo" /\ pc = "loop" /\ NextStatus = "JXL_DEC_BASIC_INFO"
    /\ calls' = Append(calls, "JxlDecoderGetBasicInfo")
    /\ \/ /\ loc' = [loc EXCEPT !.n = @ + 1]
          /\ pc' = "done" /\ exit' = "basic-info-failed"
          /\ UNCHANGED result
       \/ /\ result' = [result EXCEPT
                !.width = file.xsize, !.height = file.ysize,
                !.depth = file.bits_per_sample, !.channels = JxlChannels(file),
                !.metadata.isAnimated = Bool(file.have_animation),
                !.metadata.frameCount = IF file.have_animation THEN 0 ELSE 1]
          /\ loc' = [loc EXCEPT !.n = @ + 1, !.hasInfo = TRUE,
                                !.handled = @ \cup {"BASIC_INFO"}]
          /\ UNCHANGED <<pc, exit>>
    /\ UNCHANGED <<file, op, args, heap, objs, uad, lastInfo>>

\* status == JXL_DEC_COLOR_ENCODING: ICC copy, colour encoding, break
JxlInfo_ColorEncoding ==
    /\ op = "jxl.getImageInfo" /\ pc = "loop" /\ NextStatus = "JXL_DEC_COLOR_ENCODING"
    /\ \E iccRead \in BOOLEAN, iccOk \in BOOLEAN :
        LET size == IF iccRead THEN file.iccSize ELSE 0
            iccPtr == FreshAddr(heap)
            copied == size > 0 /\ iccOk
        IN
        /\ loc' = [loc EXCEPT !.n = @ + 1, !.handled = @ \cup {"COLOR_ENCODING"},
                              !.iccProfile = size, !.hasColorEnc = file.colorEnc.has]
        /\ heap' = IF copied THEN Alloc(heap, iccPtr, size) ELSE heap
        /\ calls' = calls \o (IF size > 0 THEN <<"malloc">> ELSE <<>>)
                          \o <<"JxlDecoderGetColorAsEncodedProfile">>
        /\ result' = IF copied
                     THEN [result EXCEPT !.metadata.iccProfilePtr = iccPtr,
                                         !.metadata.iccProfileSize = size]
                     ELSE result
    /\ pc' = "fill"
    /\ UNCHANGED <<file, op, args, exit, objs, uad, lastInfo>>

\* any other status (NEED_IMAGE_OUT_BUFFER and FULL_IMAGE included): no
\* branch of the dispatcher matches it
JxlInfo_OtherEvent ==
    /\ op = "jxl.getImageInfo" /\ pc = "loop"
    /\ NextStatus \in {"JXL_DEC_FRAME", "JXL_DEC_NEED_IMAGE_OUT_BUFFER",
                       "JXL_DEC_FULL_IMAGE"}
    /\ loc' = [loc EXCEPT !.n = @ + 1]
    /\ UNCHANGED <<file, op, pc, args, result, exit, heap, objs, uad, calls, lastInfo>>

\* status == JXL_DEC_SUCCESS: break
JxlInfo_Success ==
    /\ op = "jxl.getImageInfo" /\ pc = "loop" /\ NextStatus = "JXL_DEC_SUCCESS"
    /\ loc' = [loc EXCEPT !.n = @ + 1, !.handled = @ \cup {"SUCCESS"}]
    /\ pc' = "fill"
    /\ UNCHANGED <<file, op, args, result, exit, heap, objs, uad, calls, lastInfo>>

\* after the loop: fill the metadata, return info
JxlInfo_Fill ==
    /\ op = "jxl.getImageInfo" /\ pc = "fill"
    /\ result' = [result EXCEPT
            !.metadata = JxlFillMetadata(result.metadata, loc.hasColorEnc,
                                         file.colorEnc, result.depth)]
    /\ pc' = "done" /\ exit' = "ok"
    /\ UNCHANGED <<file, op, args, loc, heap, objs, uad, calls, lastInfo>>

\* ------------------------------------------------- encode: pixel arguments
\* pixelsPtr, pixelsSize, width, height, channels, inputBitDepth as the
\* caller passes them.  pixelsSize, width and height are 32-bit values.
Big65536 == <<0, 0, 1, 0>>
PixelPtrs == {0, 2048}
PixelSizes == {U32(0), U32(3), U32(16), U32(64)}
Widths == {U32(0), U32(1), U32(MaxDim), Big65536}
Heights == {U32(0), U32(1), Big65536}
ChannelCounts == 0..5
InputBitDepths == {8, 16}

\* A null pointer is tried with one height and one depth only.
PixelArgs ==
    { p \in [pixelsPtr : PixelPtrs, pixelsSize : PixelSizes, width : Widths,
             height : Heights, channels : ChannelCounts,
             inputBitDepth : InputBitDepths] :
        p.pixelsPtr # 0 \/ (p.height = U32(1) /\ p.inputBitDepth = 8) }

\* The pixel arguments every option value is combined with.
PlainPixelArgs ==
    { p \in PixelArgs :
        /\ p.pixelsPtr # 0 /\ p.pixelsSize = U32(64)
        /\ p.width \in {U32(1), U32(MaxDim)} /\ p.height = U32(1)
        /\ p.channels \in {3, 4} /\ p.inputBitDepth = 8 }

\* The error strings of the validation gate (the same text in both encoders,
\* except for the channel message).
ErrNullOrZero == "Invalid input: null pixels or zero dimensions"
ErrTooSmall == "Invalid input: pixel data too small"
AvifErrChannels == "Invalid channels: must be 3 (RGB) or 4 (RGBA)"
JxlErrChannels == "Invalid channels: must be 1-4"

\* ------------------------------------------------- AVIF encode: options
AvifDefaultOptions ==
    [quality |-> 75, qualityAlpha |-> 100, speed |-> 6, tune |-> "default",
     lossless |-> FALSE, chromaSubsampling |-> 420, bitDepth |-> 8,
     colorSpace |-> "srgb", transferFunction |-> "srgb", maxThreads |-> 1]

Qualities == {0, 75, 100}
AlphaQualities == {0, 100}
Speeds == {-1, 0, 6, 10, 11}
Tunes == {"default", "ssim", "psnr"}
ChromaSubsamplings == {444, 422, 420, 400, 0, 411}
AvifBitDepths == {0, 8, 10, 12, 16}
ColorSpaces == {"srgb", "display-p3", "p3", "rec2020", "bt2020", "adobe-rgb"}
TransferFunctions == {"srgb", "pq", "hlg", "linear", ""}

AvifOptions ==
    { [AvifDefaultOptions EXCEPT !.speed = v] : v \in Speeds }
    \cup { [AvifDefaultOptions EXCEPT !.tune = v] : v \in Tunes }
    \cup { [AvifDefaultOptions EXCEPT !.bitDepth = v] : v \in AvifBitDepths }
    \cup { [AvifDefaultOptions EXCEPT !.maxThreads = v] : v \in ThreadCounts }
    \cup { [AvifDefaultOptions EXCEPT !.colorSpace = cs, !.transferFunction = tf] :
             cs \in ColorSpaces, tf \in TransferFunctions }
    \cup { [AvifDefaultOptions EXCEPT !.lossless = l, !.quality = q,
                                      !.qualityAlpha = qa, !.chromaSubsampling = c] :
             l \in BOOLEAN, q \in Qualities, qa \in AlphaQualities,
             c \in ChromaSubsamplings }

\* getColorPrimaries
getColorPrimaries(cs) ==
    IF cs = "display-p3" \/ cs = "p3" THEN "AVIF_COLOR_PRIMARIES_SMPTE432"
    ELSE IF cs = "rec2020" \/ cs = "bt2020" THEN "AVIF_COLOR_PRIMARIES_BT2020"
    ELSE "AVIF_COLOR_PRIMARIES_BT709"

\* getTransferCharacteristics
getTransferCharacteristics(tf, cs) ==
    IF tf = "pq" THEN "AVIF_TRANSFER_CHARACTERISTICS_PQ"
    ELSE IF tf = "hlg" THEN "AVIF_TRANSFER_CHARACTERISTICS_HLG"
    ELSE IF tf = "linear" THEN "AVIF_TRANSFER_CHARACTERISTICS_LINEAR"
    ELSE IF cs = "rec2020" \/ cs = "bt2020"
         THEN "AVIF_TRANSFER_CHARACTERISTICS_BT2020_10BIT"
    ELSE "AVIF_TRANSFER_CHARACTERISTICS_SRGB"

\* getMatrixCoefficients
getMatrixCoefficients(cs) ==
    IF cs = "rec2020" \/ cs = "bt2020" THEN "AVIF_MATRIX_COEFFICIENTS_BT2020_NCL"
    ELSE "AVIF_MATRIX_COEFFICIENTS_BT709"

\* yuvFormat: the switch on chromaSubsampling, then the lossless override
AvifYuvFormat_requested(options) ==
    CASE options.chromaSubsampling = 444 -> "AVIF_PIXEL_FORMAT_YUV444"
      [] options.chromaSubsampling = 422 -> "AVIF_PIXEL_FORMAT_YUV422"
      [] options.chromaSubsampling = 400 -> "AVIF_PIXEL_FORMAT_YUV400"
      [] OTHER -> "AVIF_PIXEL_FORMAT_YUV420"

AvifYuvFormat_no400(options) ==
    IF options.lossless THEN "AVIF_PIXEL_FORMAT_YUV444"
    ELSE CASE options.chromaSubsampling = 444 -> "AVIF_PIXEL_FORMAT_YUV444"
           [] options.chromaSubsampling = 422 -> "AVIF_PIXEL_FORMAT_YUV422"
           [] OTHER -> "AVIF_PIXEL_FORMAT_YUV420"

AvifYuvFormat(options) ==
    IF options.lossless THEN "AVIF_PIXEL_FORMAT_YUV444"
    ELSE CASE options.chromaSubsampling = 444 -> "AVIF_PIXEL_FORMAT_YUV444"
           [] options.chromaSubsampling = 422 -> "AVIF_PIXEL_FORMAT_YUV422"
           [] options.chromaSubsampling = 400 -> "AVIF_PIXEL_FORMAT_YUV400"
           [] OTHER -> "AVIF_PIXEL_FORMAT_YUV420"

\* outputDepth of encode
AvifEncodeDepth(options) ==
    LET d1 == IF options.bitDepth < 8 THEN 8 ELSE options.bitDepth
    IN  IF d1 > 12 THEN 12 ELSE d1

\* The avifImage that encode creates and describes.
AvifEncodeImage(a) ==
    [width |-> a.width, height |-> a.height,
     depth |-> AvifEncodeDepth(a.options),
     yuvFormat |-> AvifYuvFormat(a.options),
     colorPrimaries |-> getColorPrimaries(a.options.colorSpace),
     transferCharacteristics |->
         getTransferCharacteristics(a.options.transferFunction, a.options.colorSpace),
     matrixCoefficients |-> getMatrixCoefficients(a.options.colorSpace),
     yuvRange |-> "AVIF_RANGE_FULL"]

\* bytesPerChannel
AvifBytesPerChannel(inputBitDepth) == IF inputBitDepth > 8 THEN 2 ELSE 1

\* The avifRGBImage that wraps the caller's pixels (they are not copied).
AvifEncodeRgb(a) ==
    [depth |-> a.inputBitDepth,
     format |-> IF a.channels = 4 THEN "AVIF_RGB_FORMAT_RGBA" ELSE "AVIF_RGB_FORMAT_RGB",
     alphaPremultiplied |-> FALSE, isFloat |-> FALSE,
     rowBytes |-> MulWrap(MulWrap(a.width, U32(a.channels), U32Bytes),
                          U32(AvifBytesPerChannel(a.inputBitDepth)), U32Bytes),
     pixels |-> a.pixelsPtr]

\* libavif's sentinel for lossless quality.
AVIF_QUALITY_LOSSLESS == 100

\* The encoder settings of encode.
AvifEncoderConfig(options) ==
    [maxThreads |-> options.maxThreads,
     speed |-> options.speed,
     quality |-> IF options.lossless THEN AVIF_QUALITY_LOSSLESS ELSE options.quality,
     qualityAlpha |-> IF options.lossless THEN AVIF_QUALITY_LOSSLESS
                      ELSE options.qualityAlpha,
     tune |-> IF options.tune = "ssim" THEN "ssim"
              ELSE IF options.tune = "psnr" THEN "psnr" ELSE "",
     autoTiling |-> TRUE]

\* expectedSize = width * height * channels * bytesPerChannel: three operands
\* are uint32_t and the int is converted to unsigned, so every product is
\* reduced modulo 2^32 before it is widened to size_t.
AvifExpectedSize(a) ==
    MulWrap(MulWrap(MulWrap(a.width, a.height, U32Bytes), U32(a.channels), U32Bytes),
            U32(AvifBytesPerChannel(a.inputBitDepth)), U32Bytes)

\* The validation gate of encode: the error it returns, "" when it passes.
AvifValidate(a) ==
    IF a.pixelsPtr = 0 \/ BigIsZero(a.pixelsSize) \/ BigIsZero(a.width)
       \/ BigIsZero(a.height)
    THEN ErrNullOrZero
    ELSE IF a.channels # 3 /\ a.channels # 4 THEN AvifErrChannels
    ELSE IF BigLess(a.pixelsSize, AvifExpectedSize(a)) THEN ErrTooSmall
    ELSE ""

\* width * height * channels * bytesPerChannel without any reduction: the
\* number of bytes the conversion reads from the caller's pixels.
AvifPixelBytes(a) ==
    BigMul(BigMul(BigMul(a.width, a.height), ToBig(a.channels)),
           ToBig(AvifBytesPerChannel(a.inputBitDepth)))

AvifZeroEncodeTimings == [rgbToYuv |-> TZero, encode |-> TZero, total |-> TZero]

\* Sizes avifEncoderWrite can give the encoded file.
EncodedSizes == 1..2

\* The calls of the model: every pixel argument with the default options,
\* and every option value with plain pixel arguments.
AvifEncodeInputs ==
    { p @@ [options |-> AvifDefaultOptions] : p \in PixelArgs }
    \cup { p @@ [options |-> o] : p \in PlainPixelArgs, o \in AvifOptions }

\* ------------------------------------------------- AVIF encode
\* encode(): result initialisation, the validation gate, the choice of the
\* image format, avifImageCreate and the description of the image and of the
\* RGB view
AvifEncode_Call ==
    /\ op = "none" /\ file.codec = "raw"
    /\ \E a \in AvifEncodeInputs :
       \E err \in {AvifValidate(a)} :
       \E ok \in IF err = "" THEN BOOLEAN ELSE {TRUE} :
        LET r0 == [dataPtr |-> 0, dataSize |-> 0, error |-> <<>>,
                   timings |-> AvifZeroEncodeTimings]
        IN
        /\ op' = "avif.encode"
        /\ args' = a
        /\ heap' = NoHeap /\ uad' = FALSE
        /\ IF err # ""
           THEN /\ result' = [r0 EXCEPT !.error = <<err>>]
                /\ calls' = <<>> /\ objs' = NoObjs /\ loc' = NoLoc
                /\ pc' = "done" /\ exit' = "invalid"
           ELSE IF ~ok
           THEN /\ result' = [r0 EXCEPT !.error = <<"Failed to create avifImage">>]
                /\ calls' = <<"avifImageCreate">> /\ objs' = NoObjs /\ loc' = NoLoc
                /\ pc' = "done" /\ exit' = "image-failed"
           ELSE /\ result' = r0
                /\ calls' = <<"avifImageCreate">>
                /\ objs' = Create(NoObjs, "image")
                /\ loc' = [image |-> AvifEncodeImage(a), rgb |-> AvifEncodeRgb(a)]
                /\ pc' = "rgbToYuv" /\ exit' = ""
    /\ UNCHANGED <<file, lastInfo>>

\* avifImageRGBToYUV.  It reads AvifPixelBytes bytes from the caller's
\* pixels; when the buffer is shorter the read runs past it, which either
\* yields whatever lies behind the buffer or leaves the linear memory and
\* traps.
AvifEncode_RgbToYuv ==
    /\ op = "avif.encode" /\ pc = "rgbToYuv"
    /\ calls' = Append(calls, "avifImageRGBToYUV")
    /\ uad' = (uad \/ Dead(objs, "image"))
    /\ \/ /\ result' = [result EXCEPT !.timings.rgbToYuv = TMeasured]
          /\ pc' = "encoderCreate"
          /\ UNCHANGED <<objs, exit>>
       \/ \E why \in AvifResultStrings :
          /\ result' = [result EXCEPT !.timings.rgbToYuv = TMeasured,
                                      !.error = <<"RGB to YUV error: ", why>>]
          /\ objs' = Destroy(objs, "image")
          /\ pc' = "done" /\ exit' = "convert-failed"
       \/ /\ BigLess(args.pixelsSize, AvifPixelBytes(args))
          /\ pc' = "trapped" /\ exit' = "trap"
          /\ UNCHANGED <<result, objs>>
    /\ UNCHANGED <<file, op, args, loc, heap, lastInfo>>

\* avifEncoderCreate and the encoder settings
AvifEncode_EncoderCreate ==
    /\ op = "avif.encode" /\ pc = "encoderCreate"
    /\ calls' = Append(calls, "avifEncoderCreate")
    /\ \/ /\ objs' = Create(objs, "encoder")
          /\ loc' = loc @@ [encoder |-> AvifEncoderConfig(args.options)]
          /\ pc' = "write"
          /\ UNCHANGED <<result, exit>>
       \/ /\ result' = [result EXCEPT !.error = <<"Failed to create encoder">>]
          /\ objs' = Destroy(objs, "image")
          /\ pc' = "done" /\ exit' = "encoder-failed"
          /\ UNCHANGED loc
    /\ UNCHANGED <<file, op, args, heap, uad, lastInfo>>

\* The cleanup of encode's late exits: avifRWDataFree (a no-op on data that
\* is still empty), avifEncoderDestroy, avifImageDestroy.
AvifEncodeCleanup(os) ==
    Destroy(Destroy(IF Live(os, "output") THEN Destroy(os, "output") ELSE os,
                    "encoder"), "image")

\* avifEncoderWrite.  A failed write may have filled part of the output.
AvifEncode_Write ==
    /\ op = "avif.encode" /\ pc = "write"
    /\ calls' = Append(calls, "avifEncoderWrite")
    /\ uad' = (uad \/ Dead(objs, "encoder") \/ Dead(objs, "image"))
    /\ \/ \E size \in EncodedSizes :
          /\ result' = [result EXCEPT !.timings.encode = TMeasured]
          /\ objs' = Create(objs, "output")
          /\ loc' = loc @@ [outputSize |-> size]
          /\ pc' = "output"
          /\ UNCHANGED exit
       \/ \E why \in AvifResultStrings, partial \in BOOLEAN :
          /\ result' = [result EXCEPT !.timings.encode = TMeasured,
                                      !.error = <<"Encode error: ", why>>]
          /\ objs' = AvifEncodeCleanup(IF partial THEN Create(objs, "output") ELSE objs)
          /\ pc' = "done" /\ exit' = "write-failed"
          /\ UNCHANGED loc
    /\ UNCHANGED <<file, op, args, heap, lastInfo>>

\* malloc(output.size), memcpy, the result fields and the cleanup
AvifEncode_Output_borrowed ==
    /\ op = "avif.encode" /\ pc = "output"
    /\ calls' = calls
    /\ uad' = (uad \/ Dead(objs, "output"))
    /\ objs' = AvifEncodeCleanup(objs)
    /\ result' = [result EXCEPT !.dataPtr = FreshAddr(heap),
                                !.dataSize = loc.outputSize,
                                !.timings.total = TMeasured]
    /\ pc' = "done" /\ exit' = "ok"
    /\ UNCHANGED <<file, op, args, loc, heap, lastInfo>>

AvifEncode_Output ==
    /\ op = "avif.encode" /\ pc = "output"
    /\ calls' = Append(calls, "malloc")
    /\ uad' = (uad \/ Dead(objs, "output"))
    /\ objs' = AvifEncodeCleanup(objs)
    /\ \/ LET outputBuffer == FreshAddr(heap) IN
          /\ heap' = Alloc(heap, outputBuffer, loc.outputSize)
          /\ result' = [result EXCEPT !.dataPtr = outputBuffer,
                                      !.dataSize = loc.outputSize,
                                      !.timings.total = TMeasured]
          /\ pc' = "done" /\ exit' = "ok"
       \/ /\ result' = [result EXCEPT !.error = <<"Failed to allocate output buffer">>]
          /\ pc' = "done" /\ exit' = "alloc-failed"
          /\ UNCHANGED heap
    /\ UNCHANGED <<file, op, args, loc, lastInfo>>

\* ------------------------------------------------- JPEG-XL encode: options
\* quality is a float: the model uses whole numbers and NaN.  A distance is a
\* float too; it is written in units of 2^-26 (distance 1.0 is DistanceOne),
\* in which every float32 product of a whole number up to 100 and 0.15f is a
\* whole number.
NaN == -32768
DistanceOne == 67108864
\* The literal 0.15f: the float32 nearest to 0.15 is 10066330 * 2^-26.
Float015 == 10066330
\* A float32 significand has 24 bits: it is below 2^24.
F32Significand == 16777216

\* 2^n
Pow2(n) == IF n = 0 THEN 1 ELSE IF n = 1 THEN 2 ELSE IF n = 2 THEN 4
           ELSE IF n = 3 THEN 8 ELSE IF n = 4 THEN 16 ELSE IF n = 5 THEN 32
           ELSE IF n = 6 THEN 64 ELSE 128

\* The float32 nearest to the exact product p (round to nearest, ties to
\* even): p keeps its 24 leading bits.
F32Round(p) ==
    LET s == CHOOSE k \in 0..7 :
                 /\ p < F32Significand * Pow2(k)
                 /\ (k = 0 \/ p >= F32Significand * Pow2(k - 1))
        unit == Pow2(s)
        m == p \div unit
        r == p % unit
        up == (2 * r > unit) \/ (2 * r = unit /\ m % 2 = 1)
    IN  (IF up THEN m + 1 ELSE m) * unit
FloatQualities == {-10, 0, 50, 90, 100, 150, NaN}
Efforts == {-1, 0, 1, 7, 10, 11}
JxlBitDepths == {0, 8, 12, 16, 32}
DataTypes == {"uint8", "uint16", "float16", "float32", "int8"}

JxlDefaultOptions ==
    [quality |-> 90, effort |-> 7, lossless |-> FALSE, bitDepth |-> 0,
     colorSpace |-> "srgb", transferFunction |-> "srgb", progressive |-> FALSE,
     maxThreads |-> 1, dataType |-> "uint8"]

\* The option values every pixel argument is combined with.
JxlDataTypeOptions == { [JxlDefaultOptions EXCEPT !.dataType = t] : t \in DataTypes }

JxlOptions ==
    JxlDataTypeOptions
    \cup { [JxlDefaultOptions EXCEPT !.effort = v] : v \in Efforts }
    \cup { [JxlDefaultOptions EXCEPT !.dataType = t, !.bitDepth = d] :
             t \in DataTypes, d \in JxlBitDepths }
    \cup { [JxlDefaultOptions EXCEPT !.colorSpace = cs, !.transferFunction = tf] :
             cs \in ColorSpaces, tf \in TransferFunctions }
    \cup { [JxlDefaultOptions EXCEPT !.lossless = l, !.quality = q] :
             l \in BOOLEAN, q \in FloatQualities }
    \cup { [JxlDefaultOptions EXCEPT !.progressive = v, !.maxThreads = t] :
             v \in BOOLEAN, t \in ThreadCounts }

JxlPlainPixelArgs ==
    { p \in PixelArgs :
        /\ p.pixelsPtr # 0 /\ p.pixelsSize = U32(64)
        /\ p.width = U32(MaxDim) /\ p.height = U32(1)
        /\ p.channels \in 1..4 /\ p.inputBitDepth \in {8, 16} }

\* qualityToDistance.  Every comparison with NaN is false and every
\* arithmetic result on NaN is NaN; 100.0f - quality is exact for a whole
\* quality, and the product with 0.15f is rounded to float32.
qualityToDistance(quality, lossless) ==
    IF lossless THEN 0
    ELSE IF quality = NaN THEN NaN
    ELSE LET q1 == IF quality < 0 THEN 0 ELSE quality
             q2 == IF q1 > 100 THEN 100 ELSE q1
         IN  F32Round((100 - q2) * Float015)

\* setColorEncoding: sRGB defaults, then the primaries, then the transfer
setColorEncoding(colorSpace, transferFunction) ==
    [primaries |->
         IF colorSpace = "display-p3" \/ colorSpace = "p3" THEN "JXL_PRIMARIES_P3"
         ELSE IF colorSpace = "rec2020" \/ colorSpace = "bt2020" THEN "JXL_PRIMARIES_2100"
         ELSE "JXL_PRIMARIES_SRGB",
     white_point |-> "JXL_WHITE_POINT_D65",
     transfer_function |->
         IF transferFunction = "pq" THEN "JXL_TRANSFER_FUNCTION_PQ"
         ELSE IF transferFunction = "hlg" THEN "JXL_TRANSFER_FUNCTION_HLG"
         ELSE IF transferFunction = "linear" THEN "JXL_TRANSFER_FUNCTION_LINEAR"
         ELSE "JXL_TRANSFER_FUNCTION_SRGB"]

\* bytesPerSample
JxlBytesPerSample(dataType) ==
    IF dataType = "float32" THEN 4
    ELSE IF dataType = "float16" \/ dataType = "uint16" THEN 2
    ELSE 1

\* expectedSize = static_cast<size_t>(width) * height * channels *
\* bytesPerSample: every product is a size_t and is reduced modulo 2^32.
JxlExpectedSize(a) ==
    MulWrap(MulWrap(MulWrap(Wrap(a.width, SizeTBytes), a.height, SizeTBytes),
                    U32(a.channels), SizeTBytes),
            U32(JxlBytesPerSample(a.options.dataType)), SizeTBytes)

\* The same product without any reduction.
JxlPixelBytes(a) ==
    BigMul(BigMul(BigMul(a.width, a.height), ToBig(a.channels)),
           ToBig(JxlBytesPerSample(a.options.dataType)))

\* The validation gate of encode: the error it returns, "" when it passes.
JxlValidate(a) ==
    IF a.pixelsPtr = 0 \/ BigIsZero(a.pixelsSize) \/ BigIsZero(a.width)
       \/ BigIsZero(a.height)
    THEN ErrNullOrZero
    ELSE IF a.channels < 1 \/ a.channels > 4 THEN JxlErrChannels
    ELSE IF BigLess(a.pixelsSize, JxlExpectedSize(a)) THEN ErrTooSmall
    ELSE ""

\* The JxlBasicInfo that encode fills in.
JxlEncodeBasicInfo(a) ==
    LET dt == a.options.dataType
        d0 == IF a.options.bitDepth > 0 THEN a.options.bitDepth ELSE a.inputBitDepth
        d1 == IF d0 < 8 THEN 8 ELSE d0
        outputDepth == IF d1 > 16 THEN 16 ELSE d1
        bits == IF dt = "float32" THEN 32 ELSE IF dt = "float16" THEN 16 ELSE outputDepth
        expo == IF dt = "float32" THEN 8 ELSE IF dt = "float16" THEN 5 ELSE 0
        alpha == IF a.channels = 4 \/ a.channels = 2 THEN bits ELSE 0
    IN  [xsize |-> a.width, ysize |-> a.height,
         bits_per_sample |-> bits, exponent_bits_per_sample |-> expo,
         num_color_channels |-> IF a.channels >= 3 THEN 3 ELSE 1,
         alpha_bits |-> alpha,
         alpha_exponent_bits |-> IF alpha > 0 THEN expo ELSE 0,
         num_extra_channels |-> IF alpha > 0 THEN 1 ELSE 0,
         uses_original_profile |-> FALSE]

\* The frame settings of encode: lossless flag, distance, effort, progressive.
JxlFrameSettings(options) ==
    [lossless |-> options.lossless,
     distance |-> IF options.lossless THEN 0
                  ELSE qualityToDistance(options.quality, FALSE),
     effort |-> IF options.effort < 1 THEN 1
                ELSE IF options.effort > 10 THEN 10 ELSE options.effort,
     responsive |-> IF options.progressive THEN 1 ELSE 0]

\* The JxlPixelFormat of the frame.
JxlEncodePixelFormat(a) ==
    [num_channels |-> a.channels,
     data_type |-> IF a.options.dataType = "float32" THEN "JXL_TYPE_FLOAT"
                   ELSE IF a.options.dataType = "float16" THEN "JXL_TYPE_FLOAT16"
                   ELSE IF a.options.dataType = "uint16" THEN "JXL_TYPE_UINT16"
                   ELSE "JXL_TYPE_UINT8",
     endianness |-> "JXL_NATIVE_ENDIAN", align |-> 0]

JxlZeroEncodeTimings ==
    [setup |-> TZero, encode |-> TZero, output |-> TZero, total |-> TZero]

\* output.resize(64 * 1024)
InitialCapacity == 65536

\* Where the vector's storage lies: growing it beyond its capacity moves it.
VectorAddrs == {1048576, 2097152}
MovedTo(data) == CHOOSE d \in VectorAddrs : d # data

\* outputSize = nextOut - output.data()
JxlOutputSize_address(nextOut, outputData) == nextOut

JxlOutputSize(nextOut, outputData) == nextOut - outputData

\* The calls of the model: every pixel argument with every data type, and
\* every option value with plain pixel arguments.
JxlEncodeInputs ==
    { p @@ [options |-> o] : p \in PixelArgs, o \in JxlDataTypeOptions }
    \cup { p @@ [options |-> o] : p \in JxlPlainPixelArgs, o \in JxlOptions }

\* ------------------------------------------------- JPEG-XL encode
\* encode(): result initialisation, the validation gate, JxlEncoderMake, the
\* parallel runner of a threaded build, the basic info, the colour encoding
\* and the frame settings
JxlEncode_Call ==
    /\ op = "none" /\ file.codec = "raw"
    /\ \E a \in JxlEncodeInputs :
       \E err \in {JxlValidate(a)} :
       \E MAX_THREADS \in IF err = "" THEN BuildMaxThreads ELSE {1},
          failAt \in IF err = ""
                     THEN {"", "make", "runner", "basic-info", "color", "frame-settings"}
                     ELSE {""} :
        LET o == a.options
            r0 == [dataPtr |-> 0, dataSize |-> 0, error |-> <<>>,
                   timings |-> JxlZeroEncodeTimings]
            withRunner == MAX_THREADS > 1 /\ o.maxThreads > 1
            made == <<"JxlEncoderMake">>
                    \o (IF withRunner THEN <<"JxlEncoderSetParallelRunner">> ELSE <<>>)
        IN
        /\ failAt = "runner" => withRunner
        /\ withRunner \/ MAX_THREADS = 1
        /\ op' = "jxl.encode"
        /\ args' = a
        /\ heap' = NoHeap /\ uad' = FALSE /\ objs' = NoObjs
        /\ CASE err # "" ->
                  /\ result' = [r0 EXCEPT !.error = <<err>>]
                  /\ calls' = <<>> /\ loc' = NoLoc
                  /\ pc' = "done" /\ exit' = "invalid"
             [] err = "" /\ failAt = "make" ->
                  /\ result' = [r0 EXCEPT !.error = <<"Failed to create JXL encoder">>]
                  /\ calls' = <<"JxlEncoderMake">> /\ loc' = NoLoc
                  /\ pc' = "done" /\ exit' = "create-failed"
             [] err = "" /\ failAt = "runner" ->
                  /\ result' = [r0 EXCEPT !.error = <<"Failed to set parallel runner">>]
                  /\ calls' = made /\ loc' = NoLoc
                  /\ pc' = "done" /\ exit' = "runner-failed"
             [] err = "" /\ failAt = "basic-info" ->
                  /\ result' = [r0 EXCEPT !.error = <<"Failed to set basic info">>]
                  /\ calls' = made \o <<"JxlEncoderSetBasicInfo">>
                  /\ loc' = NoLoc
                  /\ pc' = "done" /\ exit' = "basic-info-failed"
             [] err = "" /\ failAt = "color" ->
                  /\ result' = [r0 EXCEPT !.error = <<"Failed to set color encoding">>]
                  /\ calls' = made \o <<"JxlEncoderSetBasicInfo",
                                        "JxlEncoderSetColorEncoding">>
                  /\ loc' = NoLoc
                  /\ pc' = "done" /\ exit' = "color-failed"
             [] err = "" /\ failAt = "frame-settings" ->
                  /\ result' = [r0 EXCEPT !.error = <<"Failed to create frame settings">>]
                  /\ calls' = made \o <<"JxlEncoderSetBasicInfo",
                                        "JxlEncoderSetColorEncoding",
                                        "JxlEncoderFrameSettingsCreate">>
                  /\ loc' = NoLoc
                  /\ pc' = "done" /\ exit' = "frame-settings-failed"
             [] OTHER ->
                  /\ result' = [r0 EXCEPT !.timings.setup = TMeasured]
                  /\ calls' = made \o <<"JxlEncoderSetBasicInfo",
                                        "JxlEncoderSetColorEncoding",
                                        "JxlEncoderFrameSettingsCreate">>
                  /\ loc' = [info |-> JxlEncodeBasicInfo(a),
                             colorEnc |-> setColorEncoding(o.colorSpace, o.transferFunction),
                             frameSettings |-> JxlFrameSettings(o)]
                  /\ pc' = "addFrame" /\ exit' = ""
    /\ UNCHANGED <<file, lastInfo>>

\* JxlEncoderAddImageFrame, JxlEncoderCloseInput, output.resize(64 * 1024)
JxlEncode_AddImageFrame ==
    /\ op = "jxl.encode" /\ pc = "addFrame"
    /\ calls' = Append(calls, "JxlEncoderAddImageFrame")
    /\ \/ LET data == CHOOSE d \in VectorAddrs : \A e \in VectorAddrs : d <= e IN
          /\ result' = [result EXCEPT !.timings.encode = TMeasured]
          /\ loc' = loc @@ [format |-> JxlEncodePixelFormat(args),
                            capacity |-> InitialCapacity, data |-> data,
                            nextOut |-> data, availOut |-> InitialCapacity,
                            rounds |-> 0, written |-> 0]
          /\ pc' = "process"
          /\ UNCHANGED exit
       \/ /\ result' = [result EXCEPT !.error = <<"Failed to add image frame">>]
          /\ pc' = "done" /\ exit' = "frame-failed"
          /\ UNCHANGED loc
    /\ UNCHANGED <<file, op, args, heap, objs, uad, lastInfo>>

\* JxlEncoderProcessOutput returned JXL_ENC_NEED_MORE_OUTPUT: the encoder
\* wrote k bytes and advanced nextOut; the loop body doubles the vector.
\* loc.written counts the bytes the encoder has written so far (it is not a
\* variable of the code).
JxlEncode_NeedMoreOutput_restart ==
    /\ op = "jxl.encode" /\ pc = "process" /\ loc.rounds < MaxGrow
    /\ \E k \in {loc.availOut, loc.availOut - 8} :
        LET capacity == loc.capacity * 2
            data == MovedTo(loc.data)
        IN  loc' = [loc EXCEPT !.capacity = capacity, !.data = data,
                               !.nextOut = data,
                               !.availOut = capacity,
                               !.rounds = @ + 1, !.written = @ + k]
    /\ calls' = Append(calls, "JxlEncoderProcessOutput")
    /\ UNCHANGED <<file, op, pc, args, result, exit, heap, objs, uad, lastInfo>>

JxlEncode_NeedMoreOutput ==
    /\ op = "jxl.encode" /\ pc = "process" /\ loc.rounds < MaxGrow
    /\ \E k \in {loc.availOut, loc.availOut - 8} :
        LET offset == (loc.nextOut + k) - loc.data
            capacity == loc.capacity * 2
            data == MovedTo(loc.data)
        IN  loc' = [loc EXCEPT !.capacity = capacity, !.data = data,
                               !.nextOut = data + offset,
                               !.availOut = capacity - offset,
                               !.rounds = @ + 1, !.written = @ + k]
    /\ calls' = Append(calls, "JxlEncoderProcessOutput")
    /\ UNCHANGED <<file, op, pc, args, result, exit, heap, objs, uad, lastInfo>>

\* JxlEncoderProcessOutput returned anything else: the loop ends.
JxlEncode_ProcessDone ==
    /\ op = "jxl.encode" /\ pc = "process"
    /\ calls' = Append(calls, "JxlEncoderProcessOutput")
    /\ \/ \E k \in {1, loc.availOut} :
          /\ loc' = [loc EXCEPT !.nextOut = @ + k, !.availOut = @ - k,
                                !.written = @ + k]
          /\ pc' = "output"
          /\ UNCHANGED <<result, exit>>
       \/ /\ result' = [result EXCEPT !.error = <<"Encoding failed">>]
          /\ pc' = "done" /\ exit' = "encode-failed"
          /\ UNCHANGED loc
    /\ UNCHANGED <<file, op, args, heap, objs, uad, lastInfo>>

\* outputSize, malloc(outputSize), memcpy and the result fields
JxlEncode_Output ==
    /\ op = "jxl.encode" /\ pc = "output"
    /\ calls' = Append(calls, "malloc")
    /\ LET outputSize == JxlOutputSize(loc.nextOut, loc.data) IN
       \/ LET outputPtr == FreshAddr(heap) IN
          /\ heap' = Alloc(heap, outputPtr, outputSize)
          /\ result' = [result EXCEPT !.dataPtr = outputPtr,
                                      !.dataSize = outputSize,
                                      !.timings.output = TMeasured,
                                      !.timings.total = TMeasured]
          /\ pc' = "done" /\ exit' = "ok"
       \/ /\ result' = [result EXCEPT !.error = <<"Failed to allocate output buffer">>]
          /\ pc' = "done" /\ exit' = "alloc-failed"
          /\ UNCHANGED heap
    /\ UNCHANGED <<file, op, args, loc, objs, uad, lastInfo>>

\* ------------------------------------------------- between calls
\* The call has returned: the caller takes the result (and with it the
\* buffers it names); the next call starts from a clean slate.
Return ==
    /\ pc = "done"
    /\ lastInfo' = IF op \in {"avif.getImageInfo", "jxl.getImageInfo"} /\ exit = "ok"
                   THEN result ELSE lastInfo
    /\ op' = "none" /\ pc' = "idle" /\ args' = NoArgs /\ result' = NoResult
    /\ exit' = "" /\ loc' = NoLoc /\ heap' = NoHeap /\ objs' = NoObjs
    /\ uad' = FALSE /\ calls' = <<>>
    /\ UNCHANGED file

Next ==
    \/ AvifDecode_Call \/ AvifDecode_SetIO \/ AvifDecode_Parse
    \/ AvifDecode_NextImage \/ AvifDecode_Extract \/ AvifDecode_Convert
    \/ AvifDecode_Output
    \/ AvifInfo_Call \/ AvifInfo_SetIO \/ AvifInfo_Parse \/ AvifInfo_Extract
    \/ JxlDecode_Call \/ JxlDecode_Error \/ JxlDecode_NeedMoreInput
    \/ JxlDecode_BasicInfo \/ JxlDecode_ColorEncoding
    \/ JxlDecode_NeedImageOutBuffer \/ JxlDecode_FullImage
    \/ JxlDecode_OtherEvent \/ JxlDecode_Success \/ JxlDecode_Output
    \/ JxlInfo_Call \/ JxlInfo_Error \/ JxlInfo_BasicInfo \/ JxlInfo_ColorEncoding
    \/ JxlInfo_OtherEvent \/ JxlInfo_Success \/ JxlInfo_Fill
    \/ AvifEncode_Call \/ AvifEncode_RgbToYuv \/ AvifEncode_EncoderCreate
    \/ AvifEncode_Write \/ AvifEncode_Output
    \/ JxlEncode_Call \/ JxlEncode_AddImageFrame \/ JxlEncode_NeedMoreOutput
    \/ JxlEncode_ProcessDone \/ JxlEncode_Output
    \/ Return

Spec == Init /\ [][Next]_vars

\* ------------------------------------------------- decode, run to its return
\* The steps of a decode call after its entry.  decode is synchronous: once
\* called, the calling thread keeps executing it, so a step that stays
\* possible is eventually taken.
DecodeStep ==
    \/ AvifDecode_SetIO \/ AvifDecode_Parse \/ AvifDecode_NextImage
    \/ AvifDecode_Extract \/ AvifDecode_Convert \/ AvifDecode_Output
    \/ JxlDecode_Error \/ JxlDecode_NeedMoreInput
    \/ JxlDecode_BasicInfo \/ JxlDecode_ColorEncoding
    \/ JxlDecode_NeedImageOutBuffer \/ JxlDecode_FullImage
    \/ JxlDecode_OtherEvent \/ JxlDecode_Success \/ JxlDecode_Output

DecodeLive ==
    /\ Init
    /\ [][AvifDecode_Call \/ JxlDecode_Call \/ DecodeStep \/ Return]_vars
    /\ WF_vars(DecodeStep)

\* ------------------------------------------------- the metadata mappings
\* The mapping functions on their own: every enumerator each switch lists,
\* and values no case names (other enumerators of the backend, and numbers
\* that are no enumerator at all, written as their digits).
MapInputs ==
    { [fn |-> "avif.colorPrimariesToString", value |-> v] :
        v \in DOMAIN AvifPrimariesListed
              \cup {"AVIF_COLOR_PRIMARIES_UNKNOWN", "AVIF_COLOR_PRIMARIES_UNSPECIFIED",
                    "3", "255"} }
    \cup
    { [fn |-> "avif.transferToString", value |-> v] :
        v \in DOMAIN AvifTransferListed
              \cup {"AVIF_TRANSFER_CHARACTERISTICS_UNKNOWN",
                    "AVIF_TRANSFER_CHARACTERISTICS_UNSPECIFIED", "3", "255"} }
    \cup
    { [fn |-> "avif.matrixToString", value |-> v] :
        v \in DOMAIN AvifMatrixListed
              \cup {"AVIF_MATRIX_COEFFICIENTS_UNSPECIFIED",
                    "AVIF_MATRIX_COEFFICIENTS_YCGCO_RE", "3", "255"} }
    \cup
    { [fn |-> "jxl.colorPrimariesToString", value |-> v] :
        v \in {"JXL_PRIMARIES_SRGB", "JXL_PRIMARIES_CUSTOM", "JXL_PRIMARIES_2100",
               "JXL_PRIMARIES_P3", "0", "255"} }
    \cup
    { [fn |-> "jxl.transferFunctionToString", value |-> v] :
        v \in {"JXL_TRANSFER_FUNCTION_709", "JXL_TRANSFER_FUNCTION_UNKNOWN",
               "JXL_TRANSFER_FUNCTION_LINEAR", "JXL_TRANSFER_FUNCTION_SRGB",
               "JXL_TRANSFER_FUNCTION_PQ", "JXL_TRANSFER_FUNCTION_DCI",
               "JXL_TRANSFER_FUNCTION_HLG", "JXL_TRANSFER_FUNCTION_GAMMA",
               "0", "255"} }

MapApply(fn, value) ==
    CASE fn = "avif.colorPrimariesToString" -> AvifColorPrimariesToString(value)
      [] fn = "avif.transferToString" -> AvifTransferToString(value)
      [] fn = "avif.matrixToString" -> AvifMatrixToString(value)
      [] fn = "jxl.colorPrimariesToString" -> JxlColorPrimariesToString(value)
      [] fn = "jxl.transferFunctionToString" -> JxlTransferFunctionToString(value)

MapInit ==
    /\ file = RawPixels
    /\ op = "map"
    /\ pc = "idle"
    /\ args \in MapInputs
    /\ result = <<>>
    /\ exit = ""
    /\ loc = NoLoc
    /\ heap = NoHeap
    /\ objs = NoObjs
    /\ uad = FALSE
    /\ calls = <<>>
    /\ lastInfo = NoInfo

\* One call of the mapping function; result keeps what every call returned.
MapCall ==
    /\ op = "map" /\ Len(result) < 2
    /\ result' = Append(result, MapApply(args.fn, args.value))
    /\ pc' = "done"
    /\ UNCHANGED <<file, op, args, exit, loc, heap, objs, uad, calls, lastInfo>>

MapSpec == MapInit /\ [][MapCall]_vars

\* ================================================================ claims
DecodeOps == {"avif.decode", "jxl.decode"}
InfoOps == {"avif.getImageInfo", "jxl.getImageInfo"}
EncodeOps == {"avif.encode", "jxl.encode"}
AvifOps == {"avif.decode", "avif.getImageInfo", "avif.encode"}

\* C1: every DecodeResult that decode returns is either a success (dataPtr
\* is not 0 and error is empty) or a failure (error is not empty, dataPtr = 0
\* and dataSize = 0), whatever value a reader finds in a field that the code
\* left unassigned.
C1_DecodeResultXor ==
    (pc = "done" /\ op \in DecodeOps) =>
        \A p \in Vals(result.dataPtr), n \in Vals(result.dataSize) :
            \/ (p # 0 /\ result.error = <<>>)
            \/ (result.error # <<>> /\ p = 0 /\ n = 0)

\* C2: every EncodeResult that encode returns is either a success (dataPtr
\* is not 0, error is empty, dataSize is the number of bytes the backend
\* encoder produced, and the returned block has that size) or a failure
\* (error is not empty, dataPtr = 0 and dataSize = 0).
EncodedBytes == IF op = "avif.encode" THEN loc.outputSize ELSE loc.written

C2_EncodeResultXor ==
    (pc = "done" /\ op \in EncodeOps) =>
        \/ /\ result.dataPtr # 0 /\ result.error = <<>>
           /\ result.dataSize = EncodedBytes
           /\ result.dataPtr \in DOMAIN heap
           /\ heap[result.dataPtr] = result.dataSize
        \/ /\ result.error # <<>> /\ result.dataPtr = 0 /\ result.dataSize = 0

\* C2 witness: a JPEG-XL encode that grew its output vector returned success.
C2_Witness ==
    /\ pc = "done" /\ op = "jxl.encode" /\ exit = "ok"
    /\ loc.rounds >= 1 /\ result.dataSize > InitialCapacity
    /\ result.dataSize < loc.capacity

\* C3: when decode returns a failure, no block that the call obtained with
\* malloc is still allocated.
C3_NoLeakOnDecodeFailure ==
    (pc = "done" /\ op \in DecodeOps /\ result.error # <<>>) => DOMAIN heap = {}

\* C4: in the AVIF pipelines every backend object is created at most once,
\* is never destroyed more often than it was created, is never used after
\* its destruction, and has been destroyed when the call returns.
C4_ObjectsDestroyedOnce ==
    op \in AvifOps =>
        /\ ~uad
        /\ \A o \in ObjNames :
            /\ objs[o].created <= 1
            /\ objs[o].destroyed <= objs[o].created
            /\ pc = "done" => objs[o].destroyed = objs[o].created

\* C4 witness: an AVIF decode failed in the conversion after the RGB pixels
\* were allocated, and returned.
C4_Witness ==
    /\ pc = "done" /\ op = "avif.decode" /\ exit = "convert-failed"
    /\ objs["rgb"].created = 1 /\ objs["rgb"].destroyed = 1
    /\ objs["decoder"].created = 1 /\ objs["decoder"].destroyed = 1

\* C5: whenever decode returns a non-empty error, the result's width,
\* height, channels and dataSize are all 0.
C5_ZeroedOnDecodeFailure ==
    (pc = "done" /\ op \in DecodeOps /\ result.error # <<>>) =>
        \A w \in Vals(result.width), h \in Vals(result.height),
           c \in Vals(result.channels), n \in Vals(result.dataSize) :
            w = 0 /\ h = 0 /\ c = 0 /\ n = 0

\* C6: when decode succeeds on a file for which getImageInfo returned before,
\* both report the same width, height, depth, channels, colorPrimaries,
\* transferFunction, matrixCoefficients, fullRange, isHDR and ICC profile
\* size.  (A failed allocation of the profile copy is not a property of the
\* input: the calls compared are those in which a present profile was
\* copied.  The JPEG-XL files compared are those whose stream delivers the
\* basic info and the colour encoding, as every well-formed file does.)
HeaderDelivered ==
    file.codec = "jxl" =>
        /\ Len(file.stream) >= 2
        /\ file.stream[1] = "JXL_DEC_BASIC_INFO"
        /\ file.stream[2] = "JXL_DEC_COLOR_ENCODING"

IccCopied(r) ==
    (file.iccSize > 0) => (r.metadata.iccProfilePtr # 0 /\ r.metadata.iccProfilePtr # Indet)

C6_InfoAgreesWithDecode ==
    (pc = "done" /\ op \in DecodeOps /\ exit = "ok" /\ lastInfo # NoInfo
     /\ IccCopied(result) /\ IccCopied(lastInfo) /\ HeaderDelivered) =>
        /\ lastInfo.width = result.width
        /\ lastInfo.height = result.height
        /\ lastInfo.depth = result.depth
        /\ lastInfo.channels = result.channels
        /\ lastInfo.metadata.colorPrimaries = result.metadata.colorPrimaries
        /\ lastInfo.metadata.transferFunction = result.metadata.transferFunction
        /\ lastInfo.metadata.matrixCoefficients = result.metadata.matrixCoefficients
        /\ lastInfo.metadata.fullRange = result.metadata.fullRange
        /\ lastInfo.metadata.isHDR = result.metadata.isHDR
        /\ lastInfo.metadata.iccProfileSize = result.metadata.iccProfileSize

\* C7: getImageInfo never invokes the image-decode stage, never asks for,
\* allocates or binds a pixel buffer (the only block it allocates is the ICC
\* copy it returns); the AVIF variant returns its info right after the
\* parse, and the JPEG-XL variant handles no output-buffer and no full-image
\* event and returns its info only after COLOR_ENCODING or SUCCESS.
PixelCalls ==
    {"avifDecoderNextImage", "avifRGBImageAllocatePixels", "avifImageYUVToRGB",
     "JxlDecoderImageOutBufferSize", "JxlDecoderSetImageOutBuffer"}

C7_InfoNeverDecodes ==
    op \in InfoOps =>
        /\ \A i \in 1..Len(calls) : calls[i] \notin PixelCalls
        /\ objs["rgb"].created = 0
        /\ \A a \in DOMAIN heap :
               /\ a = result.metadata.iccProfilePtr
               /\ heap[a] = result.metadata.iccProfileSize
               /\ heap[a] = file.iccSize
        /\ (op = "avif.getImageInfo" /\ exit = "ok") =>
               calls[Len(calls)] = "avifDecoderParse"
        /\ op = "jxl.getImageInfo" =>
               /\ loc.handled \subseteq {"BASIC_INFO", "COLOR_ENCODING", "SUCCESS"}
               /\ exit = "ok" => loc.handled \cap {"COLOR_ENCODING", "SUCCESS"} # {}

\* C7 witness: a JPEG-XL getImageInfo was given output-buffer and full-image
\* statuses by the backend, skipped them and returned its info at SUCCESS.
C7_Witness ==
    /\ pc = "done" /\ op = "jxl.getImageInfo" /\ exit = "ok"
    /\ "SUCCESS" \in loc.handled
    /\ \E i \in 1..loc.n : file.stream[i] = "JXL_DEC_NEED_IMAGE_OUT_BUFFER"
    /\ \E i \in 1..loc.n : file.stream[i] = "JXL_DEC_FULL_IMAGE"

\* The pixel byte count the caller must supply: width x height x channels x
\* bytes per sample, as a natural number.
PixelBytes ==
    IF op = "avif.encode" THEN AvifPixelBytes(args) ELSE JxlPixelBytes(args)

SupportedChannels == IF op = "avif.encode" THEN {3, 4} ELSE 1..4

NullOrZero ==
    \/ args.pixelsPtr = 0 \/ BigIsZero(args.pixelsSize)
    \/ BigIsZero(args.width) \/ BigIsZero(args.height)

\* C8: an encode call with null pixels, pixelsSize = 0, width = 0,
\* height = 0, an unsupported channel count, or a pixelsSize below
\* width x height x channels x bytes per sample has returned a non-empty
\* error with dataPtr = 0 and dataSize = 0, without any backend call, backend
\* object or heap allocation.
C8_RejectedBeforeAnyWork ==
    (op \in EncodeOps
     /\ (\/ NullOrZero
         \/ args.channels \notin SupportedChannels
         \/ BigLess(args.pixelsSize, PixelBytes))) =>
        /\ pc = "done"
        /\ result.error # <<>> /\ result.dataPtr = 0 /\ result.dataSize = 0
        /\ calls = <<>> /\ objs = NoObjs /\ DOMAIN heap = {}

\* Calls that have exactly one defect each, one per rejection reason.
GoodPixels ==
    [pixelsPtr |-> 2048, pixelsSize |-> U32(64), width |-> U32(1),
     height |-> U32(1), channels |-> 3, inputBitDepth |-> 8]

RejectionExamples ==
    [nullPixels |-> [GoodPixels EXCEPT !.pixelsPtr = 0],
     zeroWidth |-> [GoodPixels EXCEPT !.width = U32(0)],
     zeroHeight |-> [GoodPixels EXCEPT !.height = U32(0)],
     badChannels |-> [GoodPixels EXCEPT !.channels = 5],
     undersized |-> [GoodPixels EXCEPT !.pixelsSize = U32(3), !.width = U32(MaxDim)]]

GateError(a) == IF op = "avif.encode" THEN AvifValidate(a) ELSE JxlValidate(a)

\* C9: the error string of a call rejected for one reason (null or empty
\* pixels, zero width, zero height, unsupported channel count, undersized
\* buffer) differs from the error string of a call rejected for any other
\* of these reasons.
C9_DistinctRejectionErrors ==
    (pc = "done" /\ op \in EncodeOps /\ exit = "invalid") =>
        \A r1 \in DOMAIN RejectionExamples, r2 \in DOMAIN RejectionExamples :
            (r1 # r2 /\ args = RejectionExamples[r1] @@ [options |-> args.options]) =>
                result.error #
                    <<GateError(RejectionExamples[r2] @@ [options |-> args.options])>>

\* C10: an encode call that passes the null, zero and channel checks and
\* whose pixelsSize is below the product width x height x channels x bytes
\* per sample (the product as a natural number, not reduced modulo 2^32) has
\* returned the 'pixel data too small' error.
C10_UndersizedAlwaysRejected ==
    (op \in EncodeOps /\ ~NullOrZero /\ args.channels \in SupportedChannels
     /\ BigLess(args.pixelsSize, PixelBytes)) =>
        (pc = "done" /\ result.error = <<ErrTooSmall>>)

\* ---------------------------------------------------------------- C11
\* The options with the three fields the lossless flag overrides set to
\* fixed values.
AvifWithoutOverridden(o) ==
    [o EXCEPT !.quality = 0, !.qualityAlpha = 0, !.chromaSubsampling = 420]
JxlWithoutOverridden(o) == [o EXCEPT !.quality = 0]

\* C11: with lossless = true the configuration handed to the backend does
\* not depend on quality, qualityAlpha or chromaSubsampling.  AVIF gets the
\* 4:4:4 pixel format and the lossless sentinel for quality and qualityAlpha;
\* JPEG-XL gets the lossless flag and distance 0.  Everything handed to the
\* backend equals what the same call hands over when the three options have
\* fixed values, so two calls that differ only in them configure it alike.
C11_LosslessOverrides ==
    /\ (op = "avif.encode" /\ args.options.lossless /\ "image" \in DOMAIN loc) =>
          LET b == [args EXCEPT !.options = AvifWithoutOverridden(args.options)] IN
          /\ loc.image.yuvFormat = "AVIF_PIXEL_FORMAT_YUV444"
          /\ loc.image = AvifEncodeImage(b)
          /\ loc.rgb = AvifEncodeRgb(b)
          /\ "encoder" \in DOMAIN loc =>
                /\ loc.encoder.quality = AVIF_QUALITY_LOSSLESS
                /\ loc.encoder.qualityAlpha = AVIF_QUALITY_LOSSLESS
                /\ loc.encoder = AvifEncoderConfig(b.options)
    /\ (op = "jxl.encode" /\ args.options.lossless /\ "frameSettings" \in DOMAIN loc) =>
          LET b == [args EXCEPT !.options = JxlWithoutOverridden(args.options)] IN
          /\ loc.frameSettings.lossless
          /\ loc.frameSettings.distance = 0
          /\ loc.frameSettings = JxlFrameSettings(b.options)
          /\ loc.info = JxlEncodeBasicInfo(b)
          /\ loc.colorEnc = setColorEncoding(b.options.colorSpace,
                                             b.options.transferFunction)

\* A lossless AVIF call that asked for 4:2:0 and quality 0 has configured its
\* encoder.
C11_Witness ==
    /\ op = "avif.encode" /\ pc = "write"
    /\ args.options.lossless
    /\ args.options.chromaSubsampling = 420
    /\ args.options.quality = 0 /\ args.options.qualityAlpha = 0

\* ---------------------------------------------------------------- C12
\* C12: the effort or speed handed to the backend lies in the backend's
\* range for every option value: JPEG-XL effort in [1,10], values below 1
\* becoming 1 and values above 10 becoming 10, and AVIF speed in [0,10].
C12_EffortSpeedClamped ==
    /\ (op = "jxl.encode" /\ "frameSettings" \in DOMAIN loc) =>
          LET e == args.options.effort IN
          /\ loc.frameSettings.effort \in 1..10
          /\ e < 1 => loc.frameSettings.effort = 1
          /\ e > 10 => loc.frameSettings.effort = 10
          /\ e \in 1..10 => loc.frameSettings.effort = e
    /\ (op = "avif.encode" /\ "encoder" \in DOMAIN loc) =>
          loc.encoder.speed \in 0..10

\* ---------------------------------------------------------------- C13
\* C13: JPEG-XL quality mapping.  Without lossless the distance handed to
\* the backend is a number in [0,15] that does not grow when quality grows
\* and is 0 at quality 100 and above; with lossless it is exactly 0.
C13_QualityToDistance ==
    (op = "jxl.encode" /\ "frameSettings" \in DOMAIN loc) =>
        LET q == args.options.quality
            d == loc.frameSettings.distance
        IN  IF args.options.lossless THEN d = 0
            ELSE /\ d # NaN
                 /\ 0 <= d /\ d <= 15 * DistanceOne
                 /\ q >= 100 => d = 0
                 /\ \A q2 \in FloatQualities \ {NaN} :
                        q2 >= q => qualityToDistance(q2, FALSE) <= d

\* ---------------------------------------------------------------- C14
\* C14: encoder colour mapping.  'display-p3' gives Display-P3 primaries,
\* 'rec2020' BT.2020 primaries, anything else BT.709/sRGB primaries; each of
\* 'srgb', 'pq', 'hlg', 'linear' gives its own transfer characteristic
\* whatever the colour space is, and the default derived from the colour
\* space is used only when the transfer function is unspecified.
C14_ColourMapping ==
    /\ (op = "avif.encode" /\ "image" \in DOMAIN loc) =>
          LET cs == args.options.colorSpace
              tf == args.options.transferFunction
              im == loc.image
          IN
          /\ im.colorPrimaries =
                 (IF cs = "display-p3" THEN "AVIF_COLOR_PRIMARIES_SMPTE432"
                  ELSE IF cs = "rec2020" THEN "AVIF_COLOR_PRIMARIES_BT2020"
                  ELSE IF cs \in {"p3", "bt2020"} THEN im.colorPrimaries
                  ELSE "AVIF_COLOR_PRIMARIES_BT709")
          /\ tf = "srgb" => im.transferCharacteristics = "AVIF_TRANSFER_CHARACTERISTICS_SRGB"
          /\ tf = "pq" => im.transferCharacteristics = "AVIF_TRANSFER_CHARACTERISTICS_PQ"
          /\ tf = "hlg" => im.transferCharacteristics = "AVIF_TRANSFER_CHARACTERISTICS_HLG"
          /\ tf = "linear" =>
                 im.transferCharacteristics = "AVIF_TRANSFER_CHARACTERISTICS_LINEAR"
    /\ (op = "jxl.encode" /\ "colorEnc" \in DOMAIN loc) =>
          LET cs == args.options.colorSpace
              tf == args.options.transferFunction
              ce == loc.colorEnc
          IN
          /\ ce.primaries =
                 (IF cs = "display-p3" THEN "JXL_PRIMARIES_P3"
                  ELSE IF cs = "rec2020" THEN "JXL_PRIMARIES_2100"
                  ELSE IF cs \in {"p3", "bt2020"} THEN ce.primaries
                  ELSE "JXL_PRIMARIES_SRGB")
          /\ tf = "srgb" => ce.transfer_function = "JXL_TRANSFER_FUNCTION_SRGB"
          /\ tf = "pq" => ce.transfer_function = "JXL_TRANSFER_FUNCTION_PQ"
          /\ tf = "hlg" => ce.transfer_function = "JXL_TRANSFER_FUNCTION_HLG"
          /\ tf = "linear" => ce.transfer_function = "JXL_TRANSFER_FUNCTION_LINEAR"

\* ---------------------------------------------------------------- C15
\* A call of decode or getImageInfo that returned a result to use.
Succeeded == pc = "done" /\ op \in DecodeOps \cup InfoOps /\ exit = "ok"

\* C15: in every successful decode and getImageInfo result, isHDR is true
\* exactly when the transfer function of that result is 'pq' or 'hlg' or
\* the depth of that same result is above 8.
C15_IsHDRRule ==
    Succeeded =>
        ((result.metadata.isHDR = 1) <=>
            (\/ result.metadata.transferFunction \in {<<"pq">>, <<"hlg">>}
             \/ result.depth > 8))

\* ---------------------------------------------------------------- C16
\* The values each mapping function has a case for.
ListedValues(fn) ==
    CASE fn = "avif.colorPrimariesToString" -> DOMAIN AvifPrimariesListed
      [] fn = "avif.transferToString" -> DOMAIN AvifTransferListed
      [] fn = "avif.matrixToString" -> DOMAIN AvifMatrixListed
      [] fn = "jxl.colorPrimariesToString" ->
             {"JXL_PRIMARIES_SRGB", "JXL_PRIMARIES_2100", "JXL_PRIMARIES_P3"}
      [] fn = "jxl.transferFunctionToString" ->
             {"JXL_TRANSFER_FUNCTION_SRGB", "JXL_TRANSFER_FUNCTION_LINEAR",
              "JXL_TRANSFER_FUNCTION_PQ", "JXL_TRANSFER_FUNCTION_HLG",
              "JXL_TRANSFER_FUNCTION_709", "JXL_TRANSFER_FUNCTION_DCI",
              "JXL_TRANSFER_FUNCTION_GAMMA"}

\* The strings of the metadata vocabulary.
Vocabulary ==
    {"unknown", "bt709", "bt470m", "bt470bg", "bt601", "smpte240", "generic-film",
     "bt2020", "xyz", "dci-p3", "display-p3", "ebu3213", "linear", "log100",
     "log100-sqrt10", "iec61966", "bt1361", "srgb", "bt2020-10bit", "bt2020-12bit",
     "pq", "smpte428", "hlg", "identity", "fcc", "ycgco", "bt2020-ncl", "bt2020-cl",
     "smpte2085", "chroma-derived-ncl", "chroma-derived-cl", "ictcp", "dci", "gamma"}

\* C16: the metadata mappings are total and deterministic.  Every value,
\* listed or not, gives a string of the vocabulary; the string is 'unknown'
\* exactly for the values the mapping does not list; and a second call on
\* the same value gives the same string.
C16_MappingsTotal ==
    op = "map" =>
        \A i \in 1..Len(result) :
            /\ result[i] \in Vocabulary
            /\ (result[i] = "unknown") <=> (args.value \notin ListedValues(args.fn))
            /\ result[i] = result[1]

\* An enumerator the JPEG-XL transfer mapping does not list was mapped twice.
C16_Witness ==
    /\ op = "map" /\ Len(result) = 2
    /\ args.fn = "jxl.transferFunctionToString"
    /\ args.value = "JXL_TRANSFER_FUNCTION_UNKNOWN"

\* ---------------------------------------------------------------- C17
\* The backend handed the bridge the profile of the source, or the source
\* has none (libavif exposes it in the image; libjxl is asked for it on the
\* colour-encoding event).
IccDelivered ==
    op \in {"avif.decode", "avif.getImageInfo"} \/ loc.iccProfile = file.iccSize

\* C17: in every successful decode or getImageInfo result, iccProfileSize is
\* 0 exactly when the source carried no ICC profile, and iccProfilePtr is
\* non-null exactly when iccProfileSize is above 0.
C17_IccPresence ==
    (Succeeded /\ IccDelivered) =>
        /\ (result.metadata.iccProfileSize = 0) <=> (file.iccSize = 0)
        /\ (result.metadata.iccProfilePtr # 0) <=> (result.metadata.iccProfileSize > 0)

\* ---------------------------------------------------------------- C18
\* The call has returned and one of its malloc calls had returned null: the
\* malloc of the output buffer, or the malloc of the ICC copy (the profile
\* was there to copy and the result has none).
AllocationFailed ==
    /\ pc = "done"
    /\ \/ exit = "alloc-failed"
       \/ /\ op = "avif.decode" /\ exit \in {"ok", "convert-failed", "alloc-failed"}
          /\ file.iccSize > 0 /\ result.metadata.iccProfileSize = 0
       \/ /\ op = "jxl.decode" /\ exit = "ok"
          /\ loc.iccProfile > 0 /\ result.metadata.iccProfileSize = 0

\* C18: when an allocation attempted during decode or encode fails, the
\* call returns a non-empty error and every buffer pointer of the result
\* (dataPtr, iccProfilePtr) is 0.
C18_AllocationFailureIsAnError ==
    (op \in DecodeOps \cup EncodeOps /\ AllocationFailed) =>
        /\ result.error # <<>>
        /\ result.dataPtr = 0
        /\ op \in DecodeOps => result.metadata.iccProfilePtr = 0

\* ---------------------------------------------------------------- C19
\* C19: every successful JPEG-XL result has maxCLL = 0, maxPALL = 0, no
\* mastering display, matrixCoefficients 'identity' and fullRange true;
\* every AVIF decode or getImageInfo result has no mastering display.
C19_AbsentMetadataDefaults ==
    /\ (Succeeded /\ op \in {"jxl.decode", "jxl.getImageInfo"}) =>
          /\ result.metadata.maxCLL = 0 /\ result.metadata.maxPALL = 0
          /\ result.metadata.mdPresent = 0
          /\ result.metadata.matrixCoefficients = <<"identity">>
          /\ result.metadata.fullRange = 1
    /\ (pc = "done" /\ op \in {"avif.decode", "avif.getImageInfo"}) =>
          \A present \in Vals(result.metadata.mdPresent) : present = 0

\* ---------------------------------------------------------------- C20
JxlTerminalEvents == {"JXL_DEC_ERROR", "JXL_DEC_NEED_MORE_INPUT"}

\* C20: in the JPEG-XL decode loop NEED_MORE_INPUT and a decoder error are
\* terminal.  Such a status is the last one the call ever takes from the
\* decoder, the call has returned with it, the error is 'Incomplete input
\* data' or 'Decoder error', and no output buffer was allocated.
C20_TerminalEvents ==
    op = "jxl.decode" =>
        /\ loc.n <= Len(file.stream)
        /\ \A i \in 1..loc.n :
              file.stream[i] \in JxlTerminalEvents =>
                  /\ i = loc.n
                  /\ pc = "done"
                  /\ result.error = (IF file.stream[i] = "JXL_DEC_ERROR"
                                     THEN <<"Decoder error">>
                                     ELSE <<"Incomplete input data">>)
                  /\ result.dataPtr = 0 /\ result.dataSize = 0
                  /\ DOMAIN heap = {}

\* More input was asked for after the output buffer had been bound.
C20_Witness ==
    /\ op = "jxl.decode" /\ pc = "done" /\ exit = "need-more-input"
    /\ "NEED_IMAGE_OUT_BUFFER" \in loc.handled

\* ------------------------------------------------- C21
\* The backend calls of AVIF decode's six stages, in the order of the code
\* (the conversion stage makes two calls).
AvifStageCalls ==
    <<"avifDecoderCreate", "avifDecoderSetIOMemory", "avifDecoderParse",
      "avifDecoderNextImage", "avifRGBImageAllocatePixels", "avifImageYUVToRGB",
      "malloc">>

\* For each failing return of AVIF decode: the call whose failure it reports
\* and the text its error begins with.
AvifStageFailures ==
    [create |-> [exit |-> "create-failed", call |-> "avifDecoderCreate",
                 tag |-> "Failed to create decoder"],
     io |-> [exit |-> "io-failed", call |-> "avifDecoderSetIOMemory",
             tag |-> "IO error: "],
     parse |-> [exit |-> "parse-failed", call |-> "avifDecoderParse",
                tag |-> "Parse error: "],
     decode |-> [exit |-> "decode-failed", call |-> "avifDecoderNextImage",
                 tag |-> "Decode error: "],
     convert |-> [exit |-> "convert-failed", call |-> "avifImageYUVToRGB",
                  tag |-> "YUV to RGB error: "],
     output |-> [exit |-> "alloc-failed", call |-> "malloc",
                 tag |-> "Failed to allocate output buffer"]]

\* C21: in AVIF decode the backend calls made so far are always an initial
\* part of the fixed stage order (so no stage runs twice or out of order); a
\* successful return has run every stage; a failing return reports the stage
\* whose call was the last one made, with that stage's own tag at the start of
\* the error string, and no later stage was invoked.
C21_StagesInOrder ==
    op = "avif.decode" =>
        /\ Len(calls) <= Len(AvifStageCalls)
        /\ calls = [i \in 1..Len(calls) |-> AvifStageCalls[i]]
        /\ pc = "done" =>
            \/ exit = "ok" /\ calls = AvifStageCalls /\ result.error = <<>>
            \/ \E s \in DOMAIN AvifStageFailures :
                /\ exit = AvifStageFailures[s].exit
                /\ calls[Len(calls)] = AvifStageFailures[s].call
                /\ result.error # <<>>
                /\ result.error[1] = AvifStageFailures[s].tag

C21_Witness ==
    /\ op = "avif.decode" /\ pc = "done" /\ exit = "decode-failed"
    /\ result.error[1] = "Decode error: "
    /\ calls[Len(calls)] = "avifDecoderNextImage"

\* ------------------------------------------------- C22
\* The backend objects that hold a pointer into the caller's input region: an
\* avifDecoder from avifDecoderSetIOMemory until avifDecoderDestroy.  (The
\* avifRGBImage of encode that points at the caller's pixels and the JPEG-XL
\* decoder and encoder are automatic objects of the call's frame.)
InputHolders ==
    IF /\ op \in {"avif.decode", "avif.getImageInfo"}
       /\ \E i \in 1..Len(calls) : calls[i] = "avifDecoderSetIOMemory"
       /\ Live(objs, "decoder")
    THEN {"decoder"} ELSE {}

\* C22: no step of decode, getImageInfo or encode changes the content of the
\* caller's input region, and when a call has returned no backend object that
\* was given a pointer into the region is still alive.
C22_InputOnlyBorrowed ==
    /\ [][file' = file]_vars
    /\ [](pc = "done" => InputHolders = {})

C22_Witness ==
    /\ op = "avif.getImageInfo" /\ pc = "done" /\ exit = "ok"
    /\ \E i \in 1..Len(calls) : calls[i] = "avifDecoderSetIOMemory"
    /\ objs["decoder"].created = 1

\* ------------------------------------------------- C23
\* The regions a successful decode or encode result names: the data and, when
\* non-zero, the ICC profile, each with the size the result reports.
ReturnedRegions ==
    {<<result.dataPtr, result.dataSize>>}
    \cup (IF op \in DecodeOps /\ result.metadata.iccProfilePtr # 0
          THEN {<<result.metadata.iccProfilePtr, result.metadata.iccProfileSize>>}
          ELSE {})

\* C23: a successful decode or encode names only regions the bridge malloc'ed
\* during this call, one region per pointer and of the size reported, while
\* every backend object the call created has been destroyed and none was used
\* after that; and no step of a call frees, resizes or reuses a region the
\* bridge has malloc'ed.
C23_ReturnedRegionsAreFresh ==
    /\ [](pc = "done" /\ exit = "ok" /\ op \in DecodeOps \cup EncodeOps =>
            /\ \A r \in ReturnedRegions : r[1] \in DOMAIN heap /\ heap[r[1]] = r[2]
            /\ Cardinality({r[1] : r \in ReturnedRegions}) = Cardinality(ReturnedRegions)
            /\ \A o \in ObjNames : ~Live(objs, o)
            /\ ~uad)
    /\ [][op' = op => \A a \in DOMAIN heap : a \in DOMAIN heap' /\ heap'[a] = heap[a]]_vars

C23_Witness ==
    /\ pc = "done" /\ exit = "ok" /\ op = "avif.decode"
    /\ result.metadata.iccProfilePtr # 0
    /\ Cardinality(DOMAIN heap) = 2
    /\ objs["rgb"].destroyed = 1 /\ objs["decoder"].destroyed = 1

\* ------------------------------------------------- C25
\* C25: in the result of every returned decode or encode, on every path, each
\* field of the timings record is a duration measured in this call or zero.
C25_TimingsAssigned ==
    pc = "done" /\ op \in DecodeOps \cup EncodeOps =>
        \A f \in DOMAIN result.timings : result.timings[f] \in {TZero, TMeasured}

\* ------------------------------------------------- C26
\* The positions in `calls` of the backend calls that the state records as
\* failed: the call a failing return reports (the last one made), and AVIF
\* decode's scratch allocation when no pixels were allocated.
FailedCalls ==
    (IF pc = "done" /\ exit \notin {"ok", "invalid", "unsupported-float"}
        /\ Len(calls) > 0
     THEN {Len(calls)} ELSE {})
    \cup {i \in 1..Len(calls) :
            /\ op = "avif.decode"
            /\ calls[i] = "avifRGBImageAllocatePixels"
            /\ ~loc.rgbAllocated}

\* C26: a backend call of decode or encode that failed is the last backend
\* call of that call, and the result returned after it has a non-empty error.
C26_NoFailureIgnored ==
    op \in DecodeOps \cup EncodeOps =>
        \A i \in FailedCalls :
            /\ i = Len(calls)
            /\ pc = "done" => result.error # <<>>

\* ------------------------------------------------- C27
\* C27: a getImageInfo that returns after the backend reported a failure
\* (creation, subscription or binding, parse, a decoder-error or
\* need-more-input event, a failed basic-info query) returns width, height,
\* depth and channels all zero.
C27_FailedInfoIsZero ==
    pc = "done" /\ op \in InfoOps /\ exit # "ok" =>
        /\ result.width = 0 /\ result.height = 0
        /\ result.depth = 0 /\ result.channels = 0

\* ------------------------------------------------- C28
\* The backend calls that hand an ICC profile to an encoder.  (`calls` lists
\* the calls that create objects, convert, encode and allocate; the calls the
\* encoders make besides those set options, none of them a profile.)
ProfileCalls == {"avifImageSetProfileICC", "JxlEncoderSetICCProfile"}

\* The length of the ICC profile embedded in the encoded bytes for a source
\* profile of srcSize bytes: the profile can only come out of the file if the
\* encoder was given it.
EmbeddedIccSize(srcSize) ==
    IF \E i \in 1..Len(calls) : calls[i] \in ProfileCalls THEN srcSize ELSE 0

\* C28: after a successful encode of an image that carries an ICC profile,
\* the encoded bytes embed a profile of the source profile's length, which a
\* decode of those bytes then returns.
C28_IccRoundTrip ==
    pc = "done" /\ op \in EncodeOps /\ exit = "ok" =>
        \A srcSize \in 1..MaxIcc : EmbeddedIccSize(srcSize) = srcSize

\* ------------------------------------------------- C29
\* The requested depth of an AVIF decode: the target when positive, else the
\* depth of the source.
RequestedDepth == IF args.targetBitDepth > 0 THEN args.targetBitDepth ELSE file.depth

\* C29: a successful AVIF decode reports the requested depth brought into
\* 8..16, and the conversion ran at that depth: the RGB image was set to it
\* and the returned buffer has one byte per sample at depth 8 and two above.
C29_DecodeDepthClamped ==
    pc = "done" /\ op = "avif.decode" /\ exit = "ok" =>
        /\ result.depth >= 8 /\ result.depth <= 16
        /\ RequestedDepth \in 8..16 => result.depth = RequestedDepth
        /\ RequestedDepth < 8 => result.depth = 8
        /\ RequestedDepth > 16 => result.depth = 16
        /\ loc.outputDepth = result.depth
        /\ loc.rgbAllocated =>
             result.dataSize = file.width * file.height * RgbFormatSamples(loc.format)
                               * (IF result.depth > 8 THEN 2 ELSE 1)

C29_Witness ==
    /\ pc = "done" /\ op = "avif.decode" /\ exit = "ok"
    /\ args.targetBitDepth = 32 /\ file.depth = 10
    /\ result.depth = 16 /\ loc.rgbAllocated

\* ------------------------------------------------- C30
\* C30: a successful AVIF decode reports channels = 1 or 3 (monochrome or
\* not) plus 1 for an alpha plane, the output format of the conversion has
\* that many samples per pixel, and so the returned buffer holds
\* width x height x channels samples.
C30_ChannelsMatchFormat ==
    pc = "done" /\ op = "avif.decode" /\ exit = "ok" =>
        /\ result.channels = (IF file.yuvFormat = "AVIF_PIXEL_FORMAT_YUV400" THEN 1 ELSE 3)
                             + (IF file.alphaPlane THEN 1 ELSE 0)
        /\ RgbFormatSamples(loc.format) = result.channels
        /\ loc.rgbAllocated =>
             result.dataSize = file.width * file.height * result.channels
                               * (IF result.depth > 8 THEN 2 ELSE 1)

\* ------------------------------------------------- C31
\* The sample formats of a JPEG-XL decode result: dataType with its depths.
JxlDataTypeDepths ==
    [uint8 |-> {8}, uint16 |-> 9..16, float16 |-> {16}, float32 |-> {32}]

\* A float source that is neither float16 nor float32.
UnsupportedFloat ==
    /\ file.exponent_bits_per_sample > 0
    /\ ~(file.exponent_bits_per_sample = 5 /\ file.bits_per_sample = 16)
    /\ ~(file.exponent_bits_per_sample = 8 /\ file.bits_per_sample = 32)

\* The events of the stream delivered to the running call so far.
Delivered == {file.stream[i] : i \in 1..loc.n}

\* C31: every successful JPEG-XL decode result has one of the four data
\* types, with a depth that belongs to it; and a float source that is neither
\* float16 nor float32 gets the 'Unsupported float format' error when its
\* output buffer is asked for.
C31_DataTypeMatchesDepth ==
    op = "jxl.decode" /\ pc = "done" =>
        /\ exit = "ok" =>
             /\ Len(result.dataType) = 1
             /\ result.dataType[1] \in DOMAIN JxlDataTypeDepths
             /\ result.depth \in JxlDataTypeDepths[result.dataType[1]]
        /\ UnsupportedFloat /\ "JXL_DEC_NEED_IMAGE_OUT_BUFFER" \in Delivered =>
             result.error = <<"Unsupported float format">>

\* ------------------------------------------------- C32
\* C32: a JPEG-XL decode that returns success handled BASIC_INFO before any
\* NEED_IMAGE_OUT_BUFFER, and handled NEED_IMAGE_OUT_BUFFER and FULL_IMAGE
\* before SUCCESS: the buffer copied into the result was sized, bound and
\* written, and is not still bound to the decoder.
C32_EventsBeforeSuccess ==
    /\ op = "jxl.decode" /\ "NEED_IMAGE_OUT_BUFFER" \in loc.handled =>
           "BASIC_INFO" \in loc.handled /\ loc.hasInfo
    /\ op = "jxl.decode" /\ pc = "done" /\ exit = "ok" =>
           /\ {"BASIC_INFO", "NEED_IMAGE_OUT_BUFFER", "FULL_IMAGE"} \subseteq loc.handled
           /\ ~loc.bound
           /\ result.dataSize = JxlBufferSize(file, result.channels,
                                              JxlOutputFormat(file).data_type)

\* ------------------------------------------------- C33
\* A successful JPEG-XL decode.
JxlDecoded == op = "jxl.decode" /\ pc = "done" /\ exit = "ok"

\* The colour strings and the ICC fields at their defaults.
ColourUnknown ==
    /\ result.metadata.colorPrimaries = <<"unknown">>
    /\ result.metadata.transferFunction = <<"unknown">>

NoIccReturned ==
    result.metadata.iccProfilePtr = 0 /\ result.metadata.iccProfileSize = 0

HeaderDefaults ==
    /\ result.width = 0 /\ result.height = 0 /\ result.channels = 0
    /\ result.metadata.isAnimated = 0

\* C33 as stated: a success without a COLOR_ENCODING event, or with a failed
\* colour query, has both colour strings 'unknown' and no ICC profile; a
\* success without a BASIC_INFO event has zero width, height and channels and
\* is not animated.
C33_DefaultsAsStated ==
    JxlDecoded =>
        /\ ("COLOR_ENCODING" \notin loc.handled \/ ~loc.hasColorEnc) =>
               ColourUnknown /\ NoIccReturned
        /\ "BASIC_INFO" \notin loc.handled => HeaderDefaults

\* C33 amended: without a COLOR_ENCODING event the colour strings are
\* 'unknown' and there is no ICC profile; after a COLOR_ENCODING event whose
\* colour query failed the colour strings are 'unknown' (a profile that was
\* read is still returned); without a BASIC_INFO event width, height and
\* channels are zero and the image is not animated.
C33_DefaultsWhenNotReached ==
    JxlDecoded =>
        /\ "COLOR_ENCODING" \notin loc.handled => ColourUnknown /\ NoIccReturned
        /\ ~loc.hasColorEnc => ColourUnknown
        /\ "BASIC_INFO" \notin loc.handled => HeaderDefaults

C33_Witness ==
    /\ JxlDecoded
    /\ "BASIC_INFO" \in loc.handled /\ "COLOR_ENCODING" \notin loc.handled
    /\ "FULL_IMAGE" \in loc.handled
    /\ ColourUnknown /\ NoIccReturned

\* ------------------------------------------------- C34
\* The statuses on which the JPEG-XL loop ends whatever else happened.
JxlLoopEnds == {"JXL_DEC_SUCCESS", "JXL_DEC_ERROR", "JXL_DEC_NEED_MORE_INPUT"}

\* The returns taken from inside the loop after a backend query failed.
JxlQueryFailures == {"basic-info-failed", "buffer-size-failed", "set-buffer-failed"}

\* Every decode call that was entered returns.
DecodeReturns == (op \in DecodeOps /\ pc # "done") ~> (pc = "done")

\* An event the dispatcher has no branch for only advances the decoder.
OtherEventOnlyAdvances ==
    [][op = "jxl.decode" /\ pc = "loop" /\ NextStatus \notin
          (JxlLoopEnds \cup {"JXL_DEC_BASIC_INFO", "JXL_DEC_COLOR_ENCODING",
                             "JXL_DEC_NEED_IMAGE_OUT_BUFFER", "JXL_DEC_FULL_IMAGE"})
        => /\ pc' = "loop" /\ loc'.n = loc.n + 1
           /\ result' = result /\ exit' = exit /\ calls' = calls]_vars

\* C34 as stated: every decode call returns; the JPEG-XL loop is left only on
\* SUCCESS, on a decoder error or NEED_MORE_INPUT, or on a failed backend
\* query; any other event only advances the decoder.
C34_LoopExitsAsStated ==
    /\ DecodeReturns
    /\ [][op = "jxl.decode" /\ pc = "loop" /\ pc' # "loop"
            => NextStatus \in JxlLoopEnds \/ exit' \in JxlQueryFailures]_vars
    /\ OtherEventOnlyAdvances

\* C34 amended: the loop is also left when the output buffer is asked for a
\* float format that is neither float16 nor float32.
C34_DecodeTerminates ==
    /\ DecodeReturns
    /\ [][op = "jxl.decode" /\ pc = "loop" /\ pc' # "loop"
            => \/ NextStatus \in JxlLoopEnds
               \/ exit' \in JxlQueryFailures
               \/ exit' = "unsupported-float"]_vars
    /\ OtherEventOnlyAdvances

C34_Witness ==
    /\ op = "jxl.decode" /\ pc = "done" /\ exit = "ok"
    /\ "JXL_DEC_FRAME" \in Delivered
    /\ "FULL_IMAGE" \in loc.handled

\* ------------------------------------------------- C35
\* C35: in JPEG-XL encode, over the NEED_MORE_OUTPUT rounds the capacity of
\* the output buffer is the initial capacity doubled once per round, the
\* write position stays at the count of bytes the encoder has written, the
\* space offered to the encoder is the capacity less that count, and a
\* successful result reports that count (not the capacity) as dataSize for a
\* block of that many bytes.
C35_OutputGrowth ==
    op = "jxl.encode" /\ "capacity" \in DOMAIN loc =>
        /\ loc.capacity = InitialCapacity * Pow2(loc.rounds)
        /\ loc.nextOut - loc.data = loc.written
        /\ loc.availOut = loc.capacity - loc.written
        /\ loc.written <= loc.capacity
        /\ pc = "done" /\ exit = "ok" =>
             /\ result.dataSize = loc.written
             /\ heap[result.dataPtr] = loc.written

C35_Witness ==
    /\ op = "jxl.encode" /\ pc = "done" /\ exit = "ok"
    /\ loc.rounds >= 1
    /\ result.dataSize = loc.written
    /\ loc.written > InitialCapacity /\ loc.written < loc.capacity

\* ------------------------------------------------- C36
\* The pixel format the spec gives each chromaSubsampling value.
ChromaFormats ==
    [c \in {444, 422, 420, 400} |->
        IF c = 444 THEN "AVIF_PIXEL_FORMAT_YUV444"
        ELSE IF c = 422 THEN "AVIF_PIXEL_FORMAT_YUV422"
        ELSE IF c = 420 THEN "AVIF_PIXEL_FORMAT_YUV420"
        ELSE "AVIF_PIXEL_FORMAT_YUV400"]

\* C36: an AVIF encode without lossless creates its image as 4:4:4, 4:2:2,
\* 4:2:0 or 4:0:0 for chromaSubsampling 444, 422, 420, 400 and as 4:2:0 for
\* any other value, and no call is rejected for its chromaSubsampling: a
\* call is rejected exactly when it would be rejected with 420.
C36_ChromaMapping ==
    op = "avif.encode" /\ ~args.options.lossless =>
        LET c == args.options.chromaSubsampling IN
        /\ "image" \in DOMAIN loc =>
             loc.image.yuvFormat = (IF c \in DOMAIN ChromaFormats THEN ChromaFormats[c]
                                    ELSE "AVIF_PIXEL_FORMAT_YUV420")
        /\ pc = "done" =>
             (exit = "invalid" <=>
                 AvifValidate([args EXCEPT !.options.chromaSubsampling = 420]) # "")

C36_Witness ==
    /\ op = "avif.encode" /\ pc = "done" /\ exit = "ok"
    /\ ~args.options.lossless /\ args.options.chromaSubsampling = 411
    /\ loc.image.yuvFormat = "AVIF_PIXEL_FORMAT_YUV420"

\* ------------------------------------------------- C37
\* The colour strings a decode reports for an image encoded with the given
\* options, the backend keeping the colour description it was given.
AvifReported(cs, tf) ==
    [colorPrimaries |-> AvifColorPrimariesToString(getColorPrimaries(cs)),
     transferFunction |-> AvifTransferToString(getTransferCharacteristics(tf, cs))]

JxlReported(cs, tf) ==
    [colorPrimaries |-> JxlColorPrimariesToString(setColorEncoding(cs, tf).primaries),
     transferFunction |->
         JxlTransferFunctionToString(setColorEncoding(cs, tf).transfer_function)]

\* C37: for colorSpace srgb, display-p3 or rec2020 and transferFunction srgb,
\* pq, hlg or linear, the colour description an encode hands to its backend
\* is reported by decode with the same colorPrimaries and transferFunction
\* strings on the AVIF backend as on the JPEG-XL backend, and the
\* transferFunction reported is the one requested.
C37_BackendsAgreeOnColour ==
    LET cs == args.options.colorSpace
        tf == args.options.transferFunction
    IN  /\ op \in EncodeOps
        /\ "image" \in DOMAIN loc \/ "colorEnc" \in DOMAIN loc
        /\ cs \in {"srgb", "display-p3", "rec2020"}
        /\ tf \in {"srgb", "pq", "hlg", "linear"}
        => LET mine == IF op = "avif.encode"
                       THEN [colorPrimaries |->
                                 AvifColorPrimariesToString(loc.image.colorPrimaries),
                             transferFunction |->
                                 AvifTransferToString(loc.image.transferCharacteristics)]
                       ELSE [colorPrimaries |->
                                 JxlColorPrimariesToString(loc.colorEnc.primaries),
                             transferFunction |->
                                 JxlTransferFunctionToString(loc.colorEnc.transfer_function)]
               other == IF op = "avif.encode" THEN JxlReported(cs, tf)
                        ELSE AvifReported(cs, tf)
           IN  /\ mine = other
               /\ mine.transferFunction = tf

====
